---------------------------- MODULE Spec2Model ----------------------------
(***************************************************************************)
(* State-machine model of msiempy/event.py: the query executor             *)
(* (_QueryExecuteManager._wait_for, EventManager._qry_load_data) and the   *)
(* recursive decomposition of EventManager.load_data.                      *)
(*                                                                         *)
(* A query object (an EventManager instance) is identified by its path in  *)
(* the decomposition tree: the root is <<0>>, its i-th sub-query <<0, i>>. *)
(* Time is counted in ticks of one sleep_time (0.2 s).                     *)
(***************************************************************************)
EXTENDS Integers, Sequences, FiniteSets, TLC

(* ------------------------------ bounds --------------------------------- *)
\* largest max_query_depth given to load_data
MaxDepth == 2
\* largest slots given to load_data
MaxSlots == 2
\* largest workers given to load_data
MaxWorkers == 2
\* self.limit of the root query
Limit == 2
\* largest retry given to a direct call of _qry_load_data
MaxRetry == 2
\* number of requests the remote service may fail or leave pending in a run
MaxFaults == 2
\* number of truncated (exactly limit rows) answers the remote may give in a run
MaxTrunc == 3
\* longest round trip of a status request, in ticks
MaxLatency == 599
\* largest number of filters added to a query
MaxFilters == 2
\* largest number of values of a field filter
MaxValues == 2
\* end of the root query's time window, in hours after its start (hour 0)
RootEnd == 8
\* most rows the remote service holds for a query
MaxRows == 3
\* largest number of load_data calls made on one query
MaxRuns == 2

(* ------------------------- program constants --------------------------- *)
\* _qry_load_data(self, retry=1, wait_timeout_sec=120)
DefaultRetry == 1
DefaultWaitTimeoutSec == 120
\* GroupedEventManager._qry_load_data(self, num_rows=500, retry=1,
\* wait_timeout_sec=120)
DefaultNumRows == 500
\* _get_events(self, resultID, startPos=0, numRows=500)
StartPos == 0
\* load_data(self, workers=10, slots=10, delta=None, max_query_depth=0)
DefaultWorkers == 10
DefaultSlots == 10
\* _wait_for(..., sleep_time=0.2): one tick is one sleep_time, five per second
TicksPerSec == 5
SleepTicks == 1

None == << >>
Root == <<0>>

NoDelta == [kind |-> "NoneType", val |-> ""]
StrDelta(s) == [kind |-> "str", val |-> s]

\* round trips of a status request the remote service may take
Latencies == {MaxLatency \div 2, MaxLatency}

\* wait_timeout_sec values a caller passes to _qry_load_data
WaitChoices == {0, DefaultWaitTimeoutSec \div 2, DefaultWaitTimeoutSec}

VARIABLES
    q,          \* path -> query object and the frame of its load_data call
    entry,      \* the method the caller invoked on the root
    unclosed,   \* result identifiers submitted and not closed
    warnings,   \* number of "The query is not complete" warnings logged
    faults,     \* failures the remote service may still produce
    truncs      \* truncated answers the remote service may still give

vars == <<q, entry, unclosed, warnings, faults, truncs>>

(* --------------------------- pure helpers ------------------------------ *)
Min(a, b) == IF a < b THEN a ELSE b

\* datetime.isoformat() and its parse by the time setters: a time and its
\* ISO string are different values
IsoFormat(t) == [iso |-> t]
ParseTime(s) == s.iso

\* parse_timedelta: "6h" is six hours
ParseTimedelta(s) == CASE s = "6h" -> 6
                       [] s = "3h" -> 3
                       [] OTHER -> 1

\* divide_times(start, end, slots=...): slots sub-intervals of equal length
\* (to the hour), left to right
DivideBySlots(start, end, slots) ==
    [i \in 1..slots |->
        << start + ((i - 1) * (end - start)) \div slots,
           start + (i * (end - start)) \div slots >>]

\* divide_times(start, end, delta=...): sub-intervals of length delta, the
\* last one cut at end
DivideByDelta(start, end, delta) ==
    [i \in 1..((end - start + delta - 1) \div delta) |->
        << start + (i - 1) * delta, Min(start + i * delta, end) >>]

\* timerange_gettimes(time_range): the instants of a named range
TimerangeGettimes(time_range) == << IsoFormat(0), IsoFormat(RootEnd) >>

\* concatenation of a sequence of sequences, in order
RECURSIVE Flatten(_)
Flatten(ss) == IF ss = << >> THEN << >> ELSE Head(ss) \o Flatten(Tail(ss))

(* ----------------------------- objects --------------------------------- *)
\* Event.DEFAULTS_EVENT_FIELDS
DefaultsEventFields == << "Rule.msg", "LastTime", "IPSIDAlertID" >>

\* Event.SIEM_FIELDS_MAP_INTERNAL_NAME_TO_NICKNAME, the entries of the fields
\* of the model
InternalNameToNickname ==
    ("Alert.SrcIP" :> "SrcIP") @@ ("Alert.DstIP" :> "DstIP")
        @@ ("Alert.LastTime" :> "LastTime")
        @@ ("Alert.IPSIDAlertID" :> "IPSIDAlertID")
        @@ ("Alert.65613" :> "Web_Domain")

\* mutant of GetFieldNickname: the field as it is given
GetFieldNicknameAsGiven(field) == field

\* _QueryExecuteManager.get_field_nickname
GetFieldNickname(field) ==
    IF field \in DOMAIN InternalNameToNickname
      THEN InternalNameToNickname[field]
      ELSE field

\* list(uniquekeys): the items of a set, in the order the set gives them
RECURSIVE ListOf(_)
ListOf(S) ==
    IF S = {}
      THEN << >>
      ELSE LET x == CHOOSE x \in S : TRUE IN << x >> \o ListOf(S \ {x})

\* lines 244-258: self.fields for the argument `fields`, None or a list
Fields(fields) ==
    IF fields.class # "NoneType" /\ Len(fields.items) > 0
      THEN LET all_keys == DefaultsEventFields \o fields.items
           IN  ListOf({GetFieldNickname(all_keys[i]) :
                          i \in 1..Len(all_keys)})
      ELSE DefaultsEventFields

\* EventManager._set_order for None or a valid (direction, field)
SetOrder(order) ==
    IF order.class # "NoneType"
      THEN << order.items[1], order.items[2] >>
      ELSE << "DESCENDING", "LastTime" >>

\* EventManager.__init__, and the arguments load_data is called with;
\* overtaken records, when load_data returns, that a sub-query of a later
\* time slot had returned before; filters is the list _filters, called the
\* last call of add_filter or add_value made on the query and its outcome;
\* fields and order are those of a query built without these arguments;
\* num_rows is the argument of GroupedEventManager._qry_load_data; run counts
\* the load_data calls made on the query
EventManager(parent, time_range, start_time, end_time, limit) ==
    [ parent |-> parent, time_range |-> time_range,
      start_time |-> start_time, end_time |-> end_time,
      limit |-> limit, not_completed |-> FALSE, data |-> << >>,
      pc |-> "idle", max_query_depth |-> 0, slots |-> 0, workers |-> 0,
      delta |-> NoDelta, retry |-> 0, wait |-> 0, elapsed |-> 0,
      retry0 |-> 0, att |-> 0, rid |-> None, status |-> "",
      events_raw |-> << >>, items |-> << >>, completed |-> FALSE,
      err |-> "", nkids |-> 0, asynch |-> FALSE, overtaken |-> FALSE,
      kwargs |-> {}, filters |-> << >>, called |-> << >>,
      fields |-> DefaultsEventFields,
      order |-> << "DESCENDING", "LastTime" >>,
      class |-> "EventManager", num_rows |-> 0, run |-> 1,
      resolved |-> 0 ]

Queries == DOMAIN q

\* mutant of RootParent: return self
RootParentSelf(n) == n

\* EventManager._root_parent
RECURSIVE RootParent(_)
RootParent(n) == IF q[n].parent = None THEN n ELSE RootParent(q[n].parent)

\* the sub-queries of p handed to perform, in order
Kids(p) == [i \in 1..q[p].nkids |-> Append(p, i)]
KidSet(p) == {Kids(p)[i] : i \in 1..q[p].nkids}

Started(c) == q[c].pc # "idle"
Finished(c) == q[c].pc \in {"done", "raised"}
Running(c) == Started(c) /\ ~Finished(c)

\* mutant of Asynch: every node hands its sub-queries to a pool
AsynchAlways(n) == TRUE

\* mutant of Asynch: asynch=self._parent != None
AsynchBelowRoot(n) == q[n].parent # None

\* asynch=self._parent == None
Asynch(n) == q[n].parent = None

\* NitroList.perform: with asynch the elements are taken in order by a pool
\* of `workers` threads, otherwise they are run one after the other
Schedulable(c) ==
    LET p == q[c].parent
        i == c[Len(c)]
    IN  /\ q[c].pc = "idle"
        /\ p # None
        /\ q[p].pc = "perform"
        /\ \A j \in 1..(i - 1) : Started(Kids(p)[j])
        /\ IF q[p].asynch
             THEN Cardinality({k \in KidSet(p) : Running(k)}) < q[p].workers
             ELSE \A j \in 1..(i - 1) : q[Kids(p)[j]].pc = "done"

\* the wait budget of _wait_for, in ticks
TimeoutTicks(n) == q[n].wait * TicksPerSec

(* ------------------------------- Init ---------------------------------- *)
RootQuery == EventManager(None, "CUSTOM", IsoFormat(0), IsoFormat(RootEnd), Limit)

\* root.load_data(workers, slots, delta, max_query_depth): line 409 calls
\* self._qry_load_data() with its defaults
InitLoadData ==
    \E d \in 0..MaxDepth, s \in 1..MaxSlots, w \in 1..MaxWorkers,
       dl \in {NoDelta, StrDelta("6h")} :
        /\ entry = "load_data"
        /\ q = (Root :> [RootQuery EXCEPT !.pc = "submit",
                            !.max_query_depth = d, !.slots = s,
                            !.workers = w, !.delta = dl,
                            !.retry = DefaultRetry,
                            !.retry0 = DefaultRetry,
                            !.wait = DefaultWaitTimeoutSec])

\* line 409: self._qry_load_data() is called without argument, whatever the
\* **kwargs of load_data hold: retry is the default of _qry_load_data
QryRetry(kwargs) == DefaultRetry

\* root.load_data(workers, slots, max_query_depth, retry=r): retry goes to
\* **kwargs
InitLoadDataRetry ==
    \E d \in 0..1, s \in 1..MaxSlots, w \in 1..MaxWorkers, r \in 0..MaxRetry :
        /\ entry = "load_data"
        /\ q = (Root :> [RootQuery EXCEPT !.pc = "submit",
                            !.max_query_depth = d, !.slots = s,
                            !.workers = w,
                            !.kwargs = {<<"retry", r>>},
                            !.retry = QryRetry({<<"retry", r>>}),
                            !.retry0 = QryRetry({<<"retry", r>>}),
                            !.wait = DefaultWaitTimeoutSec])

\* root._qry_load_data(retry, wait_timeout_sec)
InitQryLoadData ==
    \E r \in 0..MaxRetry, w \in WaitChoices :
        /\ entry = "_qry_load_data"
        /\ q = (Root :> [RootQuery EXCEPT !.pc = "submit",
                            !.retry = r, !.retry0 = r, !.wait = w])

\* the remote service before the call
InitRemote ==
    /\ unclosed = {}
    /\ warnings = 0
    /\ faults = MaxFaults
    /\ truncs = MaxTrunc

Init == InitLoadData /\ InitRemote

InitQry == InitQryLoadData /\ InitRemote

InitRetry == InitLoadDataRetry /\ InitRemote

(* --------------------------- _qry_load_data ---------------------------- *)
\* mutant of Except: the re-attempt resumes the wait on the query of the
\* failed attempt
ExceptResumes(n, error) ==
    IF q[n].retry > 0
      THEN [q[n] EXCEPT !.pc = "wait", !.retry = @ - 1,
                        !.wait = DefaultWaitTimeoutSec,
                        !.elapsed = 0]
      ELSE [q[n] EXCEPT !.pc = "raised", !.err = error,
                        !.elapsed = 0, !.rid = None, !.status = "",
                        !.events_raw = << >>]

\* mutant of Except: if retry >= 0
ExceptOnceMore(n, error) ==
    IF q[n].retry >= 0
      THEN [q[n] EXCEPT !.pc = "submit", !.retry = @ - 1,
                        !.wait = DefaultWaitTimeoutSec,
                        !.num_rows = IF q[n].class = "GroupedEventManager"
                                       THEN DefaultNumRows ELSE @,
                        !.elapsed = 0, !.rid = None, !.status = "",
                        !.events_raw = << >>]
      ELSE [q[n] EXCEPT !.pc = "raised", !.err = error,
                        !.elapsed = 0, !.rid = None, !.status = "",
                        !.events_raw = << >>]

\* except (NitroError, TimeoutError): self._qry_load_data(retry=retry - 1),
\* with the defaults of the other arguments, or re-raise
Except(n, error) ==
    IF q[n].retry > 0
      THEN [q[n] EXCEPT !.pc = "submit", !.retry = @ - 1,
                        !.wait = DefaultWaitTimeoutSec,
                        !.num_rows = IF q[n].class = "GroupedEventManager"
                                       THEN DefaultNumRows ELSE @,
                        !.elapsed = 0, !.rid = None, !.status = "",
                        !.events_raw = << >>]
      ELSE [q[n] EXCEPT !.pc = "raised", !.err = error,
                        !.elapsed = 0, !.rid = None, !.status = "",
                        !.events_raw = << >>]

\* mutant of Caught: except Exception
CaughtAny(error) == TRUE

\* except (NitroError, TimeoutError)
Caught(error) == error \in {"NitroError", "TimeoutError"}

\* an exception raised inside the try of _qry_load_data: handled by the
\* except clause if it is caught, raised to the caller otherwise
Handle(n, error) ==
    IF Caught(error)
      THEN Except(n, error)
      ELSE [q[n] EXCEPT !.pc = "raised", !.err = error,
                        !.elapsed = 0, !.rid = None, !.status = "",
                        !.events_raw = << >>]

\* an answer of the service that the code cannot read (a status or a result
\* without the expected keys): KeyError in _wait_for, _get_events or
\* _close_query
OtherFailure(n) ==
    /\ q[n].pc \in {"wait", "fetch", "close"}
    /\ q' = [q EXCEPT ![n] = Handle(n, "KeyError")]
    /\ UNCHANGED <<entry, unclosed, warnings, faults, truncs>>

\* the request that submits the query: lines 343-370, and lines 647-664 in a
\* grouped query
RequestName(n) ==
    IF q[n].class = "GroupedEventManager"
      THEN IF q[n].time_range = "CUSTOM"
             THEN "grouped_event_query_custom_time"
             ELSE "grouped_event_query"
      ELSE IF q[n].time_range = "CUSTOM"
             THEN "event_query_custom_time"
             ELSE "event_query"

\* self.nitro.request("event_query" / "event_query_custom_time", ...)
Submit(n) ==
    /\ q[n].pc = "submit" \/ Schedulable(n)
    /\ \/ /\ q' = [q EXCEPT ![n] = [@ EXCEPT !.pc = "wait", !.att = @ + 1,
                                     !.rid = <<n, q[n].att + 1>>,
                                     !.elapsed = 0]]
          /\ unclosed' = unclosed \cup {<<n, q[n].att + 1>>}
          /\ UNCHANGED faults
       \/ /\ faults > 0
          /\ faults' = faults - 1
          /\ q' = [q EXCEPT ![n] = [Except(n, "NitroError") EXCEPT
                                                     !.att = @ + 1]]
          /\ UNCHANGED unclosed
    /\ UNCHANGED <<entry, warnings, truncs>>

\* mutant of InBudget: datetime.now() - timeout_delta <= begin
InBudgetOrEqual(n) == q[n].elapsed <= TimeoutTicks(n)

\* while datetime.now() - timeout_delta < begin
InBudget(n) == q[n].elapsed < TimeoutTicks(n)

\* a status answer with complete = false: drawn from the remote's budget in
\* a load_data run, without limit in a direct call of _qry_load_data
Pending ==
    IF entry = "load_data"
      THEN faults > 0 /\ faults' = faults - 1
      ELSE UNCHANGED faults

\* _wait_for: one turn of the loop (a status request, then return True or
\* sleep), or the TimeoutError after the loop
WaitFor(n) ==
    /\ q[n].pc = "wait"
    /\ \/ /\ InBudget(n)
          /\ q' = [q EXCEPT ![n] = [@ EXCEPT !.pc = "fetch",
                                             !.status = "complete",
                                             !.elapsed = 0]]
          /\ UNCHANGED faults
       \/ /\ InBudget(n)
          /\ Pending
          /\ \E lat \in Latencies :
                q' = [q EXCEPT ![n] = [@ EXCEPT !.status = "pending",
                                    !.elapsed = @ + lat + SleepTicks]]
       \/ /\ InBudget(n)
          /\ faults > 0
          /\ faults' = faults - 1
          /\ q' = [q EXCEPT ![n] = Except(n, "NitroError")]
       \/ /\ ~InBudget(n)
          /\ q' = [q EXCEPT ![n] = Except(n, "TimeoutError")]
          /\ UNCHANGED faults
    /\ UNCHANGED <<entry, unclosed, warnings, truncs>>

\* the k events of the window of query n from startPos on, as query_result
\* gives them
Rows(n, k) == [j \in 1..k |-> <<n, StartPos + j>>]

\* mutant of NumRows: numRows is left to its default
NumRowsDefault(n) == DefaultNumRows

\* the numRows given to _get_events: self.limit (line 375), num_rows in a
\* grouped query (line 668)
NumRows(n) ==
    IF q[n].class = "GroupedEventManager" THEN q[n].num_rows ELSE q[n].limit

\* _get_events(resultID, numRows=...): fewer rows than numRows, or numRows
\* rows when the service holds as many
GetEvents(n) ==
    /\ q[n].pc = "fetch"
    /\ \/ /\ \E k \in 0..Min(NumRows(n) - 1, MaxRows) :
                q' = [q EXCEPT ![n] = [@ EXCEPT !.pc = "close",
                                        !.events_raw = Rows(n, k)]]
          /\ UNCHANGED <<faults, truncs>>
       \/ /\ truncs > 0
          /\ NumRows(n) <= MaxRows
          /\ truncs' = truncs - 1
          /\ q' = [q EXCEPT ![n] = [@ EXCEPT !.pc = "close",
                                  !.events_raw = Rows(n, NumRows(n))]]
          /\ UNCHANGED faults
       \/ /\ faults > 0
          /\ faults' = faults - 1
          /\ q' = [q EXCEPT ![n] = Except(n, "NitroError")]
          /\ UNCHANGED truncs
    /\ UNCHANGED <<entry, unclosed, warnings>>

\* mutant of Completed: len(events_raw) <= self.limit
CompletedOrEqual(n) == Len(q[n].events_raw) <= q[n].limit

\* return (events_raw, len(events_raw) < self.limit), in a grouped query
\* (events_raw, len(events_raw) < num_rows)
Completed(n) == Len(q[n].events_raw) < NumRows(n)

\* _close_query(resultID), then the return of _qry_load_data
CloseQuery(n) ==
    /\ q[n].pc = "close"
    /\ \/ /\ q' = [q EXCEPT ![n] = [@ EXCEPT !.pc = "returned",
                                             !.items = q[n].events_raw,
                                             !.completed = Completed(n)]]
          /\ unclosed' = unclosed \ {q[n].rid}
          /\ UNCHANGED faults
       \/ /\ faults > 0
          /\ faults' = faults - 1
          /\ q' = [q EXCEPT ![n] = Except(n, "NitroError")]
          /\ UNCHANGED unclosed
    /\ UNCHANGED <<entry, warnings, truncs>>

NextQry ==
    \/ \E n \in Queries : Submit(n)
    \/ \E n \in Queries : WaitFor(n)
    \/ \E n \in Queries : GetEvents(n)
    \/ \E n \in Queries : CloseQuery(n)

SpecQry == InitQry /\ [][NextQry]_vars /\ WF_vars(NextQry)

(* ------------------------------ load_data ------------------------------ *)
\* [Event(adict=item) for item in items]
Events(items) == items

\* a sub-query of a later time slot of the same node has returned
Overtaken(n) ==
    \E k \in Queries :
        /\ q[k].parent = q[n].parent
        /\ k[Len(k)] > n[Len(n)]
        /\ q[k].pc = "done"

\* mutant of Return: the events are added to the rows the query holds
ReturnAccumulating(n, items) ==
    [q[n] EXCEPT !.pc = "done", !.items = items,
                 !.data = @ \o Events(items),
                 !.retry = 0, !.wait = 0, !.att = 0, !.rid = None,
                 !.status = "", !.overtaken = Overtaken(n)]

\* lines 482-484: self.data = events; return self. The frame of the call is
\* gone.
Return(n, items) ==
    [q[n] EXCEPT !.pc = "done", !.items = items, !.data = Events(items),
                 !.retry = 0, !.wait = 0, !.att = 0, !.rid = None,
                 !.status = "", !.overtaken = Overtaken(n)]

\* mutant of NotCompleted: the test of `completed` is lost
NotCompletedAlways(n) == TRUE

\* line 411: if not completed
NotCompleted(n) == ~q[n].completed

\* mutant of DepthLeft: max_query_depth >= 0
DepthLeftOrZero(n) == q[n].max_query_depth >= 0

\* line 414: if max_query_depth > 0
DepthLeft(n) == q[n].max_query_depth > 0

\* the query was completed: nothing to divide
Complete(n) ==
    /\ entry = "load_data"
    /\ q[n].pc = "returned"
    /\ ~NotCompleted(n)
    /\ q' = [q EXCEPT ![n] = Return(n, q[n].items)]
    /\ UNCHANGED <<entry, unclosed, warnings, faults, truncs>>

\* mutant of Resolves: the named range is resolved by every node
ResolvesAlways(n) == TRUE

\* line 418: timerange_gettimes is called for a range that is not CUSTOM
Resolves(n) == q[n].time_range # "CUSTOM"

\* lines 417-422: the instants of the window to divide
Window(n) ==
    IF Resolves(n)
      THEN TimerangeGettimes(q[n].time_range)
      ELSE << q[n].start_time, q[n].end_time >>

\* mutant of Times: divide_times(start, end, slots=slots) in every case
TimesBySlots(n) ==
    LET start == ParseTime(Window(n)[1])
        end == ParseTime(Window(n)[2])
    IN  DivideBySlots(start, end, q[n].slots)

\* lines 424-429: by delta for the first query when delta is a string, by
\* slots otherwise
Times(n) ==
    LET start == ParseTime(Window(n)[1])
        end == ParseTime(Window(n)[2])
    IN  IF q[n].parent = None /\ q[n].delta.kind = "str"
          THEN DivideByDelta(start, end, ParseTimedelta(q[n].delta.val))
          ELSE DivideBySlots(start, end, q[n].slots)

\* mutant of SubQuery: time_range=self.time_range
SubQueryOfTheRange(n, time) ==
    [EventManager(n, q[n].time_range, IsoFormat(time[1]), IsoFormat(time[2]),
                  q[n].limit)
        EXCEPT !.max_query_depth = q[n].max_query_depth - 1,
               !.slots = q[n].slots,
               !.filters = q[n].filters,
               !.fields = Fields([class |-> "list", items |-> q[n].fields]),
               !.order = SetOrder([class |-> "tuple", items |-> q[n].order]),
               !.workers = DefaultWorkers,
               !.retry = DefaultRetry,
               !.retry0 = DefaultRetry,
               !.wait = DefaultWaitTimeoutSec]

\* mutant of SubQuery: end_time=time[0].isoformat()
SubQueryOfAnInstant(n, time) ==
    [EventManager(n, "CUSTOM", IsoFormat(time[1]), IsoFormat(time[1]),
                  q[n].limit)
        EXCEPT !.max_query_depth = q[n].max_query_depth - 1,
               !.slots = q[n].slots,
               !.filters = q[n].filters,
               !.fields = Fields([class |-> "list", items |-> q[n].fields]),
               !.order = SetOrder([class |-> "tuple", items |-> q[n].order]),
               !.workers = DefaultWorkers,
               !.retry = DefaultRetry,
               !.retry0 = DefaultRetry,
               !.wait = DefaultWaitTimeoutSec]

\* mutant of SubQuery: func_args=dict(slots=slots, max_query_depth=max_query_depth)
SubQuerySameDepth(n, time) ==
    [EventManager(n, "CUSTOM", IsoFormat(time[1]), IsoFormat(time[2]),
                  q[n].limit)
        EXCEPT !.max_query_depth = q[n].max_query_depth,
               !.slots = q[n].slots,
               !.filters = q[n].filters,
               !.fields = Fields([class |-> "list", items |-> q[n].fields]),
               !.order = SetOrder([class |-> "tuple", items |-> q[n].order]),
               !.workers = DefaultWorkers,
               !.retry = DefaultRetry,
               !.retry0 = DefaultRetry,
               !.wait = DefaultWaitTimeoutSec]

\* lines 444-453 and the func_args of perform: the sub-query of one time slot
\* and the arguments its load_data is called with
SubQuery(n, time) ==
    [EventManager(n, "CUSTOM", IsoFormat(time[1]), IsoFormat(time[2]),
                  q[n].limit)
        EXCEPT !.max_query_depth = q[n].max_query_depth - 1,
               !.slots = q[n].slots,
               !.filters = q[n].filters,
               !.fields = Fields([class |-> "list", items |-> q[n].fields]),
               !.order = SetOrder([class |-> "tuple", items |-> q[n].order]),
               !.workers = DefaultWorkers,
               !.retry = DefaultRetry,
               !.retry0 = DefaultRetry,
               !.wait = DefaultWaitTimeoutSec]

\* the time ranges timerange_gettimes knows
SupportedTimeRanges == {"LAST_24_HOURS"}

\* what lines 417-429 raise: timerange_gettimes for a time range it does not
\* know, divide_times for less than one slot
WindowError(n) ==
    IF Resolves(n) /\ q[n].time_range \notin SupportedTimeRanges
      THEN "NotImplementedError"
    ELSE IF ~(q[n].parent = None /\ q[n].delta.kind = "str") /\ q[n].slots < 1
      THEN "InvalidArgument"
    ELSE ""

\* lines 417-429 raise: load_data has no try around them
WindowFails(n) ==
    /\ entry = "load_data"
    /\ q[n].pc = "returned"
    /\ NotCompleted(n)
    /\ DepthLeft(n)
    /\ WindowError(n) # ""
    /\ q' = [q EXCEPT ![n] = [@ EXCEPT !.pc = "raised",
                                       !.err = WindowError(n),
                                       !.resolved =
                                           IF Resolves(n) THEN @ + 1 ELSE @]]
    /\ UNCHANGED <<entry, unclosed, warnings, faults, truncs>>

\* mutant of Split: the node keeps the instants of its window as a CUSTOM
\* range of its own
SplitStoringWindow(n) ==
    /\ entry = "load_data"
    /\ q[n].pc = "returned"
    /\ NotCompleted(n)
    /\ DepthLeft(n)
    /\ WindowError(n) = ""
    /\ LET times == Times(n)
           new == {Append(n, i) : i \in 1..Len(times)}
       IN  q' = [p \in Queries \cup new |->
                    IF p = n
                      THEN [q[n] EXCEPT !.pc = "perform",
                                        !.nkids = Len(times),
                                        !.asynch = Asynch(n),
                                        !.time_range = "CUSTOM",
                                        !.start_time = Window(n)[1],
                                        !.end_time = Window(n)[2]]
                      ELSE IF p \in new
                             THEN SubQuery(n, times[p[Len(p)]])
                             ELSE q[p]]
    /\ UNCHANGED <<entry, unclosed, warnings, faults, truncs>>

\* lines 414-470: divide the window, build the sub-queries, hand them to
\* perform
Split(n) ==
    /\ entry = "load_data"
    /\ q[n].pc = "returned"
    /\ NotCompleted(n)
    /\ DepthLeft(n)
    /\ WindowError(n) = ""
    /\ LET times == Times(n)
           new == {Append(n, i) : i \in 1..Len(times)}
       IN  q' = [p \in Queries \cup new |->
                    IF p = n
                      THEN [q[n] EXCEPT !.pc = "perform",
                                        !.nkids = Len(times),
                                        !.asynch = Asynch(n),
                                        !.resolved =
                                            IF Resolves(n) THEN @ + 1 ELSE @]
                      ELSE IF p \in new
                             THEN SubQuery(n, times[p[Len(p)]])
                             ELSE q[p]]
    /\ UNCHANGED <<entry, unclosed, warnings, faults, truncs>>

\* mutant of MergedItems: the sub-queries' rows are added to the node's own
MergedItemsKeepOwn(n) ==
    q[n].items \o Flatten([i \in 1..q[n].nkids |-> q[Kids(n)[i]].data])

\* mutant of MergedItems: the results are flattened from the last sub-query
\* to the first
MergedItemsReversed(n) ==
    Flatten([i \in 1..q[n].nkids |-> q[Kids(n)[q[n].nkids + 1 - i]].data])

\* line 473: items = [item for sublist in results for item in sublist]
MergedItems(n) ==
    Flatten([i \in 1..q[n].nkids |-> q[Kids(n)[i]].data])

\* mutant of Merge: the rows of the sub-queries that loaded are merged, a
\* failed sub-query is left out
MergeWhatLoaded(n) ==
    /\ q[n].pc = "perform"
    /\ \A k \in KidSet(n) : Finished(k)
    /\ q' = [q EXCEPT ![n] = Return(n, MergedItems(n))]
    /\ UNCHANGED <<entry, unclosed, warnings, faults, truncs>>

\* perform returned the sub-queries, all loaded
Merge(n) ==
    /\ q[n].pc = "perform"
    /\ \A k \in KidSet(n) : q[k].pc = "done"
    /\ q' = [q EXCEPT ![n] = Return(n, MergedItems(n))]
    /\ UNCHANGED <<entry, unclosed, warnings, faults, truncs>>

\* perform raises what a sub-query's load_data raised: at once when the
\* sub-queries run one after the other, when the pool is idle otherwise
PerformRaises(n) ==
    /\ q[n].pc = "perform"
    /\ \E k \in KidSet(n) : q[k].pc = "raised"
    /\ q[n].asynch => \A k \in KidSet(n) : Finished(k)
    /\ LET first == CHOOSE i \in 1..q[n].nkids :
                       /\ q[Kids(n)[i]].pc = "raised"
                       /\ \A j \in 1..(i - 1) : q[Kids(n)[j]].pc # "raised"
       IN  q' = [q EXCEPT ![n] = [@ EXCEPT !.pc = "raised",
                                   !.err = q[Kids(n)[first]].err]]
    /\ UNCHANGED <<entry, unclosed, warnings, faults, truncs>>

\* line 476: if not self._root_parent.not_completed
Exhausted(n) ==
    /\ entry = "load_data"
    /\ q[n].pc = "returned"
    /\ NotCompleted(n)
    /\ ~DepthLeft(n)
    /\ IF ~q[RootParent(n)].not_completed
         THEN q' = [q EXCEPT ![n] = [@ EXCEPT !.pc = "warn"]]
         ELSE q' = [q EXCEPT ![n] = Return(n, q[n].items)]
    /\ UNCHANGED <<entry, unclosed, warnings, faults, truncs>>

\* lines 477-484: log.warning(...); self._root_parent.not_completed = True
Warn(n) ==
    /\ q[n].pc = "warn"
    /\ warnings' = warnings + 1
    /\ LET r == RootParent(n)
           flagged == [q EXCEPT ![r] = [@ EXCEPT !.not_completed = TRUE]]
       IN  q' = [flagged EXCEPT ![n] =
                    [Return(n, q[n].items) EXCEPT
                        !.not_completed = flagged[n].not_completed]]
    /\ UNCHANGED <<entry, unclosed, faults, truncs>>

Next ==
    \/ \E n \in Queries : Submit(n)
    \/ \E n \in Queries : WaitFor(n)
    \/ \E n \in Queries : GetEvents(n)
    \/ \E n \in Queries : CloseQuery(n)
    \/ \E n \in Queries : Complete(n)
    \/ \E n \in Queries : Split(n)
    \/ \E n \in Queries : Merge(n)
    \/ \E n \in Queries : PerformRaises(n)
    \/ \E n \in Queries : Exhausted(n)
    \/ \E n \in Queries : Warn(n)

Spec == Init /\ [][Next]_vars

\* load_data called with the retry argument of its documentation
SpecRetry == InitRetry /\ [][Next]_vars

\* the threads of the run keep running: a step that can be taken is taken
SpecFair == Init /\ [][Next]_vars /\ WF_vars(Next)

(* ------------------------------- filters ------------------------------- *)
\* Python values, by class: what isinstance and str() look at. The payload of
\* a number is its numeral.
StrObj(s) == [class |-> "str", v |-> s]
IntObj(s) == [class |-> "int", v |-> s]
PyNone == [class |-> "NoneType"]
PyList(items) == [class |-> "list", items |-> items]
PyTuple(items) == [class |-> "tuple", items |-> items]
PyDict(data) == [class |-> "dict", data |-> data]

\* str(value)
PyStr(x) ==
    CASE x.class = "str" -> x
      [] x.class = "int" -> StrObj(x.v)
      [] x.class = "NoneType" -> StrObj("None")
      [] OTHER -> StrObj("<repr>")

\* no exception / an exception and what its message names
NoError == [error |-> "", naming |-> ""]
Error(class, naming) == [error |-> class, naming |-> naming]
IsRaised(r) == r.raised.error # ""

\* type=None
NoType == "None"

\* FieldFilter.POSSIBLE_OPERATORS
PossibleOperators ==
    { "IN", "NOT_IN", "GREATER_THAN", "LESS_THAN", "GREATER_OR_EQUALS_THAN",
      "LESS_OR_EQUALS_THAN", "NUMERIC_EQUALS", "NUMERIC_NOT_EQUALS",
      "DOES_NOT_EQUAL", "EQUALS", "CONTAINS", "DOES_NOT_CONTAIN", "REGEX" }

\* FieldFilter.POSSIBLE_VALUE_TYPES
PossibleValueTypes ==
    << [type |-> "EsmWatchlistValue", key |-> "watchlist"],
       [type |-> "EsmVariableValue", key |-> "variable"],
       [type |-> "EsmBasicValue", key |-> "value"],
       [type |-> "EsmCompoundValue", key |-> "values"] >>

\* {"type": type, type_template["key"]: value}
ValueEntry(type, key, value) == ("type" :> type) @@ (key :> value)

\* mutant of StoredValue: the payload is stored as given
StoredValueAsGiven(type, value) == value

\* lines 2124-2126: the payload, a string if type is EsmBasicValue
StoredValue(type, value) ==
    IF type = "EsmBasicValue" THEN PyStr(value) ELSE value

\* FieldFilter.add_value(type, **kwargs) on the list _values: the list after
\* the call and the exception raised, if any
AddValue(values, type, kwargs) ==
    LET found == {i \in DOMAIN PossibleValueTypes :
                      PossibleValueTypes[i].type = type}
    IN  IF found # {}
          THEN LET type_template ==
                       PossibleValueTypes[CHOOSE i \in found :
                                              \A j \in found : i <= j]
               IN  IF type_template.key \in DOMAIN kwargs
                     THEN [raised |-> NoError,
                           values |-> Append(values,
                               ValueEntry(type, type_template.key,
                                   StoredValue(type,
                                               kwargs[type_template.key])))]
                     ELSE [raised |-> Error("AttributeError", type),
                           values |-> values]
          ELSE [raised |-> Error("AttributeError", type), values |-> values]

\* self.add_value(**val) for a dict val
AddValueOfDict(values, val) ==
    AddValue(values,
             IF "type" \in DOMAIN val THEN val["type"] ELSE NoType,
             [k \in DOMAIN val \ {"type"} |-> val[k]])

\* FieldFilter.add_basic_value
AddBasicValue(values, value) ==
    AddValue(values, "EsmBasicValue", [value |-> value])

\* FieldFilter._set_values, the loop over a list
RECURSIVE SetEachValue(_, _)
SetEachValue(values, vals) ==
    IF vals = << >>
      THEN [raised |-> NoError, values |-> values]
      ELSE LET val == Head(vals)
               r == IF val.class = "dict"
                      THEN AddValueOfDict(values, val.data)
                      ELSE IF val.class \in {"int", "float", "str"}
                             THEN AddBasicValue(values, val)
                             ELSE [raised |-> Error("TypeError", ""),
                                   values |-> values]
           IN  IF IsRaised(r) THEN r ELSE SetEachValue(r.values, Tail(vals))

\* mutant of SetValues: the assigned values replace the list
SetValuesReplacing(values, arg) ==
    IF arg.class = "list" THEN SetEachValue(<< >>, arg.items)
    ELSE IF arg.class = "dict" THEN AddValueOfDict(<< >>, arg.data)
    ELSE IF arg.class \in {"int", "float", "str"}
           THEN AddBasicValue(<< >>, arg)
    ELSE [raised |-> Error("TypeError", ""), values |-> values]

\* FieldFilter._set_values
SetValues(values, arg) ==
    IF arg.class = "list" THEN SetEachValue(values, arg.items)
    ELSE IF arg.class = "dict" THEN AddValueOfDict(values, arg.data)
    ELSE IF arg.class \in {"int", "float", "str"}
           THEN AddBasicValue(values, arg)
    ELSE [raised |-> Error("TypeError", ""), values |-> values]

\* the dict a FieldFilter dumps as (self.data)
FieldFilterData(name, operator, values) ==
    [type |-> "EsmFieldFilter", field |-> [name |-> name],
     operator |-> operator, values |-> values]

\* FieldFilter(name, values, operator): the object, or the exception of the
\* operator or values setter
FieldFilter(name, values, operator) ==
    IF operator \notin PossibleOperators
      THEN [raised |-> Error("AttributeError", operator), obj |-> PyNone]
      ELSE LET r == SetValues(<< >>, values)
           IN  IF IsRaised(r)
                 THEN [raised |-> r.raised, obj |-> PyNone]
                 ELSE [raised |-> NoError,
                       obj |-> [class |-> "FieldFilter", name |-> name,
                                operator |-> operator, values |-> r.values,
                                data |-> FieldFilterData(name, operator,
                                                         r.values)]]

\* dict(f) for a FieldFilter, a GroupFilter (UserDict: its data) or a dict
Dict(f) == f.data

\* mutant of GroupFilterData: [dict(f) for f in reversed(filters)]
GroupFilterDataReversed(filters, logic) ==
    [type |-> "EsmFilterGroup",
     filters |-> [i \in 1..Len(filters) |-> Dict(filters[Len(filters) + 1 - i])],
     logic |-> logic]

\* lines 1685-1689: the dict a GroupFilter dumps as
GroupFilterData(filters, logic) ==
    [type |-> "EsmFilterGroup",
     filters |-> [i \in 1..Len(filters) |-> Dict(filters[i])],
     logic |-> logic]

\* GroupFilter(filters, logic)
GroupFilter(filters, logic) ==
    [class |-> "GroupFilter", data |-> GroupFilterData(filters, logic)]

\* mutant of Accepted: isinstance(afilter, (GroupFilter, FieldFilter))
AcceptedNoDict(afilter) == afilter.class \in {"GroupFilter", "FieldFilter"}

\* line 63: isinstance(afilter, (GroupFilter, FieldFilter, dict))
Accepted(afilter) == afilter.class \in {"GroupFilter", "FieldFilter", "dict"}

\* _QueryExecuteManager.add_filter on the list _filters: the list after the
\* call and the exception raised, if any
AddFilterTo(filters, afilter) ==
    IF afilter.class = "tuple"
      THEN IF Len(afilter.items) < 2
             THEN [raised |-> Error("IndexError", ""), filters |-> filters]
             ELSE LET r == FieldFilter(afilter.items[1], afilter.items[2], "IN")
                  IN  IF IsRaised(r)
                        THEN [raised |-> r.raised, filters |-> filters]
                        ELSE [raised |-> NoError,
                              filters |-> Append(filters, r.obj)]
    ELSE IF Accepted(afilter)
      THEN [raised |-> NoError, filters |-> Append(filters, afilter)]
    ELSE [raised |-> Error("TypeError", ""), filters |-> filters]

\* _QueryExecuteManager._get_filters
GetFilters(n) == [i \in 1..Len(q[n].filters) |-> Dict(q[n].filters[i])]

\* filter trees: a leaf is a field and its literals, a group a logic and its
\* children
LeafTree(field, literals) ==
    [kind |-> "leaf", field |-> field, literals |-> literals]
GroupTree(logic, children) ==
    [kind |-> "group", logic |-> logic, children |-> children]

SrcIPLeaf == LeafTree("SrcIP", << StrObj("10.0.0.0/8") >>)
SigIDLeaf == LeafTree("SigID", << IntObj("42"), StrObj("43") >>)
OrGroup == GroupTree("OR", << SrcIPLeaf, SigIDLeaf >>)

\* the trees given to add_filter
Trees ==
    << SrcIPLeaf, SigIDLeaf, OrGroup,
       GroupTree("AND", << SigIDLeaf, SrcIPLeaf >>),
       GroupTree("AND", << OrGroup, SigIDLeaf >>),
       GroupTree("OR", << SrcIPLeaf, GroupTree("AND", << OrGroup, SrcIPLeaf >>) >>) >>

\* the FieldFilter and GroupFilter objects of a tree
RECURSIVE Build(_)
Build(t) ==
    IF t.kind = "leaf"
      THEN FieldFilter(t.field, PyList(t.literals), "IN").obj
      ELSE GroupFilter([i \in 1..Len(t.children) |-> Build(t.children[i])],
                       t.logic)

\* what add_filter is given for a tree: the pair for a leaf, the GroupFilter
\* for a group
Argument(t) ==
    IF t.kind = "leaf"
      THEN PyTuple(<< t.field, PyList(t.literals) >>)
      ELSE Build(t)

\* values and value records given to FieldFilter
ValueArgs ==
    << StrObj("10.0.0.0/8"), IntObj("42"),
       PyDict([type |-> "EsmWatchlistValue", watchlist |-> IntObj("7")]),
       PyList(<< PyDict([type |-> "EsmBasicValue", value |-> IntObj("42")]) >>),
       PyDict([type |-> "EsmRangeValue", value |-> StrObj("a")]),
       PyNone, PyList(<< StrObj("a"), PyNone >>) >>

\* other arguments given to add_filter
OtherArgs ==
    << PyDict(Dict(Build(SrcIPLeaf))),
       FieldFilter("DstIP", IntObj("42"), "EQUALS").obj,
       PyTuple(<< "SrcIP" >>),
       StrObj("SrcIP"), IntObj("42"), PyNone,
       PyList(<< PyTuple(<< "SrcIP", StrObj("10.0.0.0/8") >>) >>) >>

FilterArgs ==
    [i \in 1..Len(Trees) |-> Argument(Trees[i])]
        \o [i \in 1..Len(ValueArgs) |-> PyTuple(<< "DstIP", ValueArgs[i] >>)]
        \o OtherArgs

\* the type and the **kwargs given to add_value
TypeArgs ==
    << "EsmBasicValue", "EsmCompoundValue", "EsmWatchlistValue",
       "EsmVariableValue", "EsmRangeValue", NoType >>

KwArgs ==
    << [value |-> IntObj("42")],
       [values |-> PyList(<< StrObj("a"), StrObj("b") >>)],
       [watchlist |-> IntObj("7")],
       [variable |-> IntObj("3")],
       [value |-> StrObj("a"), watchlist |-> IntObj("7")],
       [k \in {} |-> PyNone] >>

\* a call and its outcome
Called(op, arg, raised) == << [op |-> op, arg |-> arg, raised |-> raised] >>

\* query.add_filter(afilter)
AddFilter(n) ==
    /\ entry = "add_filter"
    /\ Len(q[n].filters) < MaxFilters
    /\ \E i \in 1..Len(FilterArgs) :
          LET r == AddFilterTo(q[n].filters, FilterArgs[i])
          IN  q' = [q EXCEPT ![n] = [@ EXCEPT
                        !.filters = r.filters,
                        !.called = Called("add_filter", FilterArgs[i],
                                          r.raised)]]
    /\ UNCHANGED <<entry, unclosed, warnings, faults, truncs>>

\* add_value(type, **kwargs) on a FieldFilter of the query; the object's data
\* holds the same list as its _values
AddValueToFilter(n) ==
    /\ entry = "add_filter"
    /\ \E i \in 1..Len(q[n].filters), t \in 1..Len(TypeArgs),
          k \in 1..Len(KwArgs) :
          /\ q[n].filters[i].class = "FieldFilter"
          /\ Len(q[n].filters[i].values) < MaxValues
          /\ LET r == AddValue(q[n].filters[i].values, TypeArgs[t], KwArgs[k])
             IN  q' = [q EXCEPT ![n] = [@ EXCEPT
                        !.filters[i].values = r.values,
                        !.filters[i].data.values = r.values,
                        !.called = Called("add_value",
                                          [filter |-> i,
                                           before |-> q[n].filters[i].values,
                                           type |-> TypeArgs[t],
                                           kwargs |-> KwArgs[k]],
                                          r.raised)]]
    /\ UNCHANGED <<entry, unclosed, warnings, faults, truncs>>

\* a query without filters, before any call
InitAddFilter ==
    /\ entry = "add_filter"
    /\ q = (Root :> RootQuery)

InitFilters == InitAddFilter /\ InitRemote

NextFilters ==
    \/ \E n \in Queries : AddFilter(n)
    \/ \E n \in Queries : AddValueToFilter(n)

SpecFilters == InitFilters /\ [][NextFilters]_vars

(* -------------------------------- Event -------------------------------- *)
\* the keys and the values given to an Event
EventKeys ==
    {"SrcIP", "Alert.SrcIP", "msg", "Rule.msg", "Web_Domain", "Alert.65613",
     "Unknown"}
EventValues == {"a", "b"}

\* Event.FIELDS_TABLES, its first entries
FieldsTables == << "Alert", "Rule" >>

\* Event.SIEM_FIELDS_MAP_NICKNAME_TO_INTERNAL_NAME, the entries of the keys
NicknameToInternalName ==
    [SrcIP |-> "Alert.SrcIP", Web_Domain |-> "Alert.65613",
     DstIP |-> "Alert.DstIP", LastTime |-> "Alert.LastTime",
     IPSIDAlertID |-> "Alert.IPSIDAlertID"]
        @@ ("Rule.msg" :> "Rule.msg")

\* collections.UserDict.__contains__(self, key)
UserDictContains(e, key) == key \in DOMAIN e

\* the keys table + "." + key of the loop on FIELDS_TABLES that the event holds
Prefixed(e, key) ==
    {i \in 1..Len(FieldsTables) :
        UserDictContains(e, FieldsTables[i] \o "." \o key)}

\* Event._find_key: the key itself, the internal name of the nickname, the
\* first table-prefixed key, or KeyError
FindKey(e, key) ==
    IF UserDictContains(e, key)
      THEN [raised |-> NoError, key |-> key]
    ELSE IF /\ key \in DOMAIN NicknameToInternalName
            /\ UserDictContains(e, NicknameToInternalName[key])
      THEN [raised |-> NoError, key |-> NicknameToInternalName[key]]
    ELSE IF Prefixed(e, key) # {}
      THEN [raised |-> NoError,
            key |-> LET i == CHOOSE i \in Prefixed(e, key) :
                                 \A j \in Prefixed(e, key) : i <= j
                    IN  FieldsTables[i] \o "." \o key]
    ELSE [raised |-> Error("KeyError", key), key |-> ""]

\* Event.__getitem__
GetItem(e, key) ==
    LET k == FindKey(e, key)
    IN  IF IsRaised(k)
          THEN [raised |-> k.raised, value |-> ""]
          ELSE [raised |-> NoError, value |-> e[k.key]]

\* Event.__contains__
Contains(e, key) == ~IsRaised(FindKey(e, key))

\* Event.__setitem__: at the key _find_key gives, at the key itself on
\* KeyError
SetItem(e, key, value) ==
    LET k == FindKey(e, key)
        at == IF IsRaised(k) THEN key ELSE k.key
    IN  [x \in DOMAIN e \cup {at} |-> IF x = at THEN value ELSE e[x]]

\* Event.__delitem__
DelItem(e, key) ==
    LET k == FindKey(e, key)
    IN  IF IsRaised(k)
          THEN [raised |-> k.raised, event |-> e]
          ELSE [raised |-> NoError,
                event |-> [x \in DOMAIN e \ {k.key} |-> e[x]]]

\* the event of the model: the first item of the root query's data
TheEvent == q[Root].data[1]

\* event[key] = value
SetEventItem(n) ==
    /\ entry = "event"
    /\ \E key \in EventKeys, value \in EventValues :
          q' = [q EXCEPT ![n] = [@ EXCEPT
                    !.data[1] = SetItem(q[n].data[1], key, value),
                    !.called = Called("setitem",
                                      [key |-> key, value |-> value],
                                      NoError)]]
    /\ UNCHANGED <<entry, unclosed, warnings, faults, truncs>>

\* del event[key]
DelEventItem(n) ==
    /\ entry = "event"
    /\ \E key \in EventKeys :
          LET r == DelItem(q[n].data[1], key)
          IN  q' = [q EXCEPT ![n] = [@ EXCEPT
                        !.data[1] = r.event,
                        !.called = Called("delitem", key, r.raised)]]
    /\ UNCHANGED <<entry, unclosed, warnings, faults, truncs>>

\* event[key]
GetEventItem(n) ==
    /\ entry = "event"
    /\ \E key \in EventKeys :
          LET r == GetItem(q[n].data[1], key)
          IN  q' = [q EXCEPT ![n] = [@ EXCEPT
                        !.called = Called("getitem", key, r.raised)]]
    /\ UNCHANGED <<entry, unclosed, warnings, faults, truncs>>

\* Event(): an event without field
InitEmptyEvent ==
    /\ entry = "event"
    /\ q = (Root :> [RootQuery EXCEPT !.data = << [k \in {} |-> ""] >>])

InitEvent == InitEmptyEvent /\ InitRemote

NextEvent ==
    \/ \E n \in Queries : SetEventItem(n)
    \/ \E n \in Queries : DelEventItem(n)
    \/ \E n \in Queries : GetEventItem(n)

SpecEvent == InitEvent /\ [][NextEvent]_vars

(* ----------------------------- constructor ----------------------------- *)
\* a relative time range, and the start_time / end_time of a query that has
\* one
Last24Hours == "LAST_24_HOURS"
NoTime == IsoFormat(-1)

\* the arguments EventManager is built with: fields (None or a list), order
\* (None or a tuple), filters, time_range
CtorArgs ==
    << [fields |-> PyNone, order |-> PyNone, filters |-> << >>,
        time_range |-> "CUSTOM"],
       [fields |-> PyList(<< >>),
        order |-> PyTuple(<< "ASCENDING", "LastTime" >>),
        filters |-> << Argument(SrcIPLeaf) >>, time_range |-> Last24Hours],
       [fields |-> PyList(<< "SrcIP", "SrcIP" >>), order |-> PyNone,
        filters |-> << >>, time_range |-> Last24Hours],
       [fields |-> PyList(<< "Alert.SrcIP", "SrcIP" >>),
        order |-> PyTuple(<< "ASCENDING", "SrcIP" >>),
        filters |-> << Argument(OrGroup) >>, time_range |-> "CUSTOM"],
       [fields |-> PyList(<< "DstIP", "Alert.LastTime" >>), order |-> PyNone,
        filters |-> << Argument(SrcIPLeaf), Argument(SigIDLeaf) >>,
        time_range |-> "CUSTOM"],
       [fields |-> PyList(<< "Rule.msg", "IPSIDAlertID", "Alert.65613",
                             "LastTime" >>),
        order |-> PyTuple(<< "DESCENDING", "DstIP" >>),
        filters |-> << >>, time_range |-> Last24Hours] >>

\* the filters argument of the constructor: add_filter of each, in order
RECURSIVE AddFilters(_, _)
AddFilters(filters, args) ==
    IF args = << >>
      THEN filters
      ELSE AddFilters(AddFilterTo(filters, Head(args)).filters, Tail(args))

\* EventManager(fields=, order=, filters=, time_range=, start_time=,
\* end_time=, limit=)
Constructed(a) ==
    [EventManager(None, a.time_range,
                  IF a.time_range = "CUSTOM" THEN IsoFormat(0) ELSE NoTime,
                  IF a.time_range = "CUSTOM" THEN IsoFormat(RootEnd)
                                             ELSE NoTime,
                  Limit)
        EXCEPT !.fields = Fields(a.fields),
               !.order = SetOrder(a.order),
               !.filters = AddFilters(<< >>, a.filters)]

\* EventManager(...).load_data(slots, max_query_depth)
InitConstructed ==
    \E i \in 1..Len(CtorArgs), d \in 0..1, s \in 1..MaxSlots :
        /\ entry = "load_data"
        /\ q = (Root :> [Constructed(CtorArgs[i]) EXCEPT !.pc = "submit",
                            !.max_query_depth = d, !.slots = s,
                            !.workers = MaxWorkers,
                            !.retry = DefaultRetry,
                            !.retry0 = DefaultRetry,
                            !.wait = DefaultWaitTimeoutSec])

InitSplit == InitConstructed /\ InitRemote

\* load_data on a query built with arguments
SpecSplit == InitSplit /\ [][Next]_vars

(* ------------------------- GroupedEventManager ------------------------- *)
IPSIDLeaf == LeafTree("IPSID", << StrObj("144115188075855872") >>)

\* the filters a grouped query is built with
GroupedFilterArgs ==
    << << >>,
       << Argument(IPSIDLeaf) >>,
       << Argument(SrcIPLeaf) >>,
       << Argument(OrGroup) >>,
       << Argument(IPSIDLeaf), Argument(OrGroup) >>,
       << Argument(SrcIPLeaf), Argument(IPSIDLeaf) >>,
       << Argument(GroupTree("AND", << IPSIDLeaf, SrcIPLeaf >>)) >> >>

\* the num_rows given to load_data
NumRowsChoices == {1, Limit, DefaultNumRows}

\* GroupedEventManager(filters=, time_range=, ...)
GroupedEventManager(filters, time_range) ==
    [EventManager(None, time_range,
                  IF time_range = "CUSTOM" THEN IsoFormat(0) ELSE NoTime,
                  IF time_range = "CUSTOM" THEN IsoFormat(RootEnd) ELSE NoTime,
                  Limit)
        EXCEPT !.class = "GroupedEventManager",
               !.filters = AddFilters(<< >>, filters)]

\* line 639, the items of the list: f["field"]["name"] == "IPSID" for f in
\* self.filters; a dict without the key "field" raises KeyError
IPSIDTests(n) ==
    [i \in 1..Len(GetFilters(n)) |->
        IF "field" \in DOMAIN GetFilters(n)[i]
          THEN [raised |-> NoError,
                value |-> GetFilters(n)[i].field.name = "IPSID"]
          ELSE [raised |-> Error("KeyError", "field"), value |-> FALSE]]

\* lines 639-642: the test made before the try
GroupedCheck(n) ==
    /\ entry = "grouped_load_data"
    /\ q[n].pc = "check"
    /\ LET tests == IPSIDTests(n)
       IN  q' = [q EXCEPT ![n] =
                  IF \E i \in 1..Len(tests) : IsRaised(tests[i])
                    THEN [@ EXCEPT !.pc = "raised", !.err = "KeyError"]
                  ELSE IF ~\E i \in 1..Len(tests) : tests[i].value
                    THEN [@ EXCEPT !.pc = "raised", !.err = "ValueError"]
                  ELSE [@ EXCEPT !.pc = "submit"]]
    /\ UNCHANGED <<entry, unclosed, warnings, faults, truncs>>

\* GroupedEventManager.load_data after _qry_load_data returned: the warning
\* if not completed, then self.data
GroupedLoaded(n) ==
    /\ entry = "grouped_load_data"
    /\ q[n].pc = "returned"
    /\ warnings' = IF q[n].completed THEN warnings ELSE warnings + 1
    /\ q' = [q EXCEPT ![n] = [@ EXCEPT !.pc = "done", !.data = q[n].items]]
    /\ UNCHANGED <<entry, unclosed, faults, truncs>>

\* query.load_data(num_rows=k, retry=r): the keyword arguments go to
\* _qry_load_data
InitGroupedLoadData ==
    \E f \in 1..Len(GroupedFilterArgs), t \in {"CUSTOM", Last24Hours},
       r \in 0..MaxRetry, k \in NumRowsChoices :
        /\ entry = "grouped_load_data"
        /\ q = (Root :> [GroupedEventManager(GroupedFilterArgs[f], t)
                            EXCEPT !.pc = "check", !.num_rows = k,
                                   !.kwargs = {<<"num_rows", k>>,
                                               <<"retry", r>>},
                                   !.retry = r, !.retry0 = r,
                                   !.wait = DefaultWaitTimeoutSec])

InitGrouped == InitGroupedLoadData /\ InitRemote

NextGrouped ==
    \/ \E n \in Queries : GroupedCheck(n)
    \/ \E n \in Queries : Submit(n)
    \/ \E n \in Queries : WaitFor(n)
    \/ \E n \in Queries : GetEvents(n)
    \/ \E n \in Queries : CloseQuery(n)
    \/ \E n \in Queries : GroupedLoaded(n)

SpecGrouped == InitGrouped /\ [][NextGrouped]_vars

(* --------------------------- load_data again --------------------------- *)
\* root.load_data(slots, max_query_depth)
InitLoadDataOnce ==
    \E d \in 0..1, s \in 1..MaxSlots :
        /\ entry = "load_data"
        /\ q = (Root :> [RootQuery EXCEPT !.pc = "submit",
                            !.max_query_depth = d, !.slots = s,
                            !.workers = MaxWorkers,
                            !.retry = DefaultRetry,
                            !.retry0 = DefaultRetry,
                            !.wait = DefaultWaitTimeoutSec])

InitAgain == InitLoadDataOnce /\ InitRemote

\* load_data is called again, with the same arguments, on a query whose
\* load_data has returned: the object keeps its attributes (data and
\* not_completed among them), the sub-queries of the earlier call are gone;
\* the result identifiers of the earlier call are left out of account; called
\* records the rows the query held when the call was made
LoadDataAgain(n) ==
    /\ entry = "load_data"
    /\ n = Root
    /\ q[n].pc = "done"
    /\ q[n].run < MaxRuns
    /\ q' = (Root :> [q[n] EXCEPT !.pc = "submit", !.run = @ + 1,
                            !.retry = DefaultRetry,
                            !.retry0 = DefaultRetry,
                            !.wait = DefaultWaitTimeoutSec,
                            !.events_raw = << >>, !.items = << >>,
                            !.completed = FALSE, !.nkids = 0,
                            !.asynch = FALSE, !.overtaken = FALSE,
                            !.resolved = 0,
                            !.called = Called("load_data",
                                              [data |-> q[n].data],
                                              NoError)])
    /\ unclosed' = {}
    /\ UNCHANGED <<entry, warnings, faults, truncs>>

NextAgain ==
    \/ \E n \in Queries : Submit(n)
    \/ \E n \in Queries : WaitFor(n)
    \/ \E n \in Queries : GetEvents(n)
    \/ \E n \in Queries : CloseQuery(n)
    \/ \E n \in Queries : Complete(n)
    \/ \E n \in Queries : Split(n)
    \/ \E n \in Queries : Merge(n)
    \/ \E n \in Queries : PerformRaises(n)
    \/ \E n \in Queries : Exhausted(n)
    \/ \E n \in Queries : Warn(n)
    \/ \E n \in Queries : LoadDataAgain(n)

SpecAgain == InitAgain /\ [][NextAgain]_vars

(* ------------------------------ failures ------------------------------- *)
\* a time range timerange_gettimes does not know
UnknownRange == "UNKNOWN_RANGE"

\* EventManager(time_range=t, ...).load_data(slots=s, max_query_depth=d),
\* slots=0 included
InitLoadDataAnyWindow ==
    \E d \in 0..1, s \in 0..MaxSlots, t \in {"CUSTOM", Last24Hours, UnknownRange} :
        /\ entry = "load_data"
        /\ q = (Root :> [EventManager(None, t,
                            IF t = "CUSTOM" THEN IsoFormat(0) ELSE NoTime,
                            IF t = "CUSTOM" THEN IsoFormat(RootEnd) ELSE NoTime,
                            Limit)
                          EXCEPT !.pc = "submit",
                            !.max_query_depth = d, !.slots = s,
                            !.workers = MaxWorkers,
                            !.retry = DefaultRetry,
                            !.retry0 = DefaultRetry,
                            !.wait = DefaultWaitTimeoutSec])

InitErrors == InitLoadDataAnyWindow /\ InitRemote

NextErrors ==
    \/ \E n \in Queries : Submit(n)
    \/ \E n \in Queries : WaitFor(n)
    \/ \E n \in Queries : GetEvents(n)
    \/ \E n \in Queries : CloseQuery(n)
    \/ \E n \in Queries : Complete(n)
    \/ \E n \in Queries : Split(n)
    \/ \E n \in Queries : Merge(n)
    \/ \E n \in Queries : PerformRaises(n)
    \/ \E n \in Queries : Exhausted(n)
    \/ \E n \in Queries : Warn(n)
    \/ \E n \in Queries : OtherFailure(n)
    \/ \E n \in Queries : WindowFails(n)

SpecErrors == InitErrors /\ [][NextErrors]_vars

\* EventManager(time_range=t, ...).load_data(workers=1, slots=s,
\* max_query_depth=d)
InitWindow ==
    \E d \in 0..MaxDepth, s \in 1..MaxSlots,
       t \in {"CUSTOM", Last24Hours, UnknownRange} :
        /\ entry = "load_data"
        /\ q = (Root :> [EventManager(None, t,
                            IF t = "CUSTOM" THEN IsoFormat(0) ELSE NoTime,
                            IF t = "CUSTOM" THEN IsoFormat(RootEnd) ELSE NoTime,
                            Limit)
                          EXCEPT !.pc = "submit",
                            !.max_query_depth = d, !.slots = s,
                            !.workers = 1,
                            !.retry = DefaultRetry,
                            !.retry0 = DefaultRetry,
                            !.wait = DefaultWaitTimeoutSec])
        /\ InitRemote

SpecWindow == InitWindow /\ [][NextErrors]_vars

(* ------------------------ slots and delta ------------------------------ *)
\* the arguments load_data is called with: slots is DefaultSlots when the
\* caller leaves it out (line 388); the last delta is not a string but a
\* datetime.timedelta object
SlotsArgs ==
    << [slots |-> DefaultSlots, delta |-> NoDelta, max_query_depth |-> 1, limit |-> 1],
       [slots |-> 2, delta |-> NoDelta, max_query_depth |-> 2, limit |-> Limit],
       [slots |-> 2, delta |-> StrDelta("6h"), max_query_depth |-> 2, limit |-> Limit],
       [slots |-> 1, delta |-> StrDelta("3h"), max_query_depth |-> 2, limit |-> Limit],
       [slots |-> 2, delta |-> [kind |-> "timedelta", val |-> "6h"],
        max_query_depth |-> 2, limit |-> Limit] >>

InitSlots ==
    \E i \in 1..Len(SlotsArgs) :
        /\ entry = "load_data"
        /\ q = (Root :> [EventManager(None, "CUSTOM", IsoFormat(0),
                                      IsoFormat(RootEnd), SlotsArgs[i].limit)
                            EXCEPT !.pc = "submit",
                                   !.max_query_depth = SlotsArgs[i].max_query_depth,
                                   !.slots = SlotsArgs[i].slots,
                                   !.workers = 1,
                                   !.delta = SlotsArgs[i].delta,
                                   !.retry = DefaultRetry,
                                   !.retry0 = DefaultRetry,
                                   !.wait = DefaultWaitTimeoutSec])
        /\ InitRemote

SpecSlots == InitSlots /\ [][Next]_vars

(* ----------------------------- FieldFilter ----------------------------- *)
\* FieldFilter._set_operator: self._operator = operator; self.data, built by
\* __init__ (line 1982), keeps the string it was built with
SetOperator(f, operator) ==
    IF operator \in PossibleOperators
      THEN [raised |-> NoError, obj |-> [f EXCEPT !.operator = operator]]
      ELSE [raised |-> Error("AttributeError", operator), obj |-> f]

\* the operators and the values assigned to a FieldFilter
OperatorArgs == << "IN", "EQUALS", "NOT_IN", "LIKE" >>
AssignedValues ==
    ValueArgs \o << PyList(<< StrObj("a"), IntObj("42") >>),
                    PyList(<< PyNone, StrObj("a") >>) >>

\* afilter.operator = operator, on a FieldFilter of the query
AssignOperator(n) ==
    /\ entry = "add_filter"
    /\ \E i \in 1..Len(q[n].filters), o \in 1..Len(OperatorArgs) :
          /\ q[n].filters[i].class = "FieldFilter"
          /\ LET r == SetOperator(q[n].filters[i], OperatorArgs[o])
             IN  q' = [q EXCEPT ![n] = [@ EXCEPT
                        !.filters[i] = r.obj,
                        !.called = Called("operator",
                                          [filter |-> i,
                                           operator |-> OperatorArgs[o]],
                                          r.raised)]]
    /\ UNCHANGED <<entry, unclosed, warnings, faults, truncs>>

\* afilter.values = values, on a FieldFilter of the query: _set_values
\* appends to the list _values, which the object's data holds too, until it
\* raises
AssignValues(n) ==
    /\ entry = "add_filter"
    /\ \E i \in 1..Len(q[n].filters), v \in 1..Len(AssignedValues) :
          /\ q[n].filters[i].class = "FieldFilter"
          /\ Len(q[n].filters[i].values) < MaxValues
          /\ LET r == SetValues(q[n].filters[i].values, AssignedValues[v])
             IN  q' = [q EXCEPT ![n] = [@ EXCEPT
                        !.filters[i].values = r.values,
                        !.filters[i].data.values = r.values,
                        !.called = Called("values",
                                          [filter |-> i,
                                           before |-> q[n].filters[i].values,
                                           values |-> AssignedValues[v]],
                                          r.raised)]]
    /\ UNCHANGED <<entry, unclosed, warnings, faults, truncs>>

\* query.add_filter(FieldFilter(name, values, operator)) was called once
InitFieldFilter ==
    \E f \in {FieldFilter("SrcIP", PyList(<< StrObj("10.0.0.0/8") >>), "IN"),
              FieldFilter("DstIP", PyList(<< >>), "EQUALS")} :
        /\ entry = "add_filter"
        /\ q = (Root :> [RootQuery EXCEPT
                            !.filters = AddFilterTo(<< >>, f.obj).filters])
        /\ InitRemote

NextFieldFilter ==
    \/ \E n \in Queries : AssignOperator(n)
    \/ \E n \in Queries : AssignValues(n)
    \/ \E n \in Queries : AddValueToFilter(n)

SpecFieldFilter == InitFieldFilter /\ [][NextFieldFilter]_vars

(* -------------------------- EventManager.order ------------------------- *)
\* EventManager.POSSBILE_ROW_ORDER
PossibleRowOrder == {"ASCENDING", "DESCENDING"}

\* `if order:` an empty tuple, list or string, None and 0 are false
Truthy(order) ==
    CASE order.class \in {"tuple", "list"} -> order.items # << >>
      [] order.class = "NoneType" -> FALSE
      [] order.class = "str" -> order.v # ""
      [] order.class = "int" -> order.v # "0"
      [] OTHER -> TRUE

\* order[i]: an item of a tuple or a list, IndexError past its end; the
\* first character of a string that is not empty (never a member of
\* POSSBILE_ROW_ORDER); TypeError for a value that has no items
GetOrderItem(order, i) ==
    CASE order.class \in {"tuple", "list"} ->
           IF i + 1 <= Len(order.items)
             THEN [raised |-> NoError, item |-> order.items[i + 1]]
             ELSE [raised |-> Error("IndexError", ""), item |-> ""]
      [] order.class = "str" ->
           IF i = 0
             THEN [raised |-> NoError, item |-> "<char>"]
             ELSE [raised |-> Error("IndexError", ""), item |-> ""]
      [] OTHER -> [raised |-> Error("TypeError", ""), item |-> ""]

\* mutant of SetOrderOn: the direction is stored before it is tested
SetOrderOnUntested(cur, order) ==
    IF Truthy(order)
      THEN LET d == GetOrderItem(order, 0)
               f == GetOrderItem(order, 1)
           IN  IF d.raised.error = "IndexError"
                 THEN [raised |-> Error("ValueError", ""), order |-> cur]
               ELSE IF IsRaised(d) THEN [raised |-> d.raised, order |-> cur]
               ELSE IF d.item \notin PossibleRowOrder
                 THEN [raised |-> Error("AttributeError", d.item),
                       order |-> << d.item, cur[2] >>]
               ELSE IF f.raised.error = "IndexError"
                 THEN [raised |-> Error("ValueError", ""),
                       order |-> << d.item, cur[2] >>]
               ELSE IF IsRaised(f)
                 THEN [raised |-> f.raised, order |-> << d.item, cur[2] >>]
               ELSE [raised |-> NoError, order |-> << d.item, f.item >>]
      ELSE [raised |-> NoError, order |-> << "DESCENDING", "LastTime" >>]

\* EventManager._set_order on a query whose (direction, field) is cur: the
\* pair after the call and the exception raised, if any; line 294 stores the
\* direction before line 295 reads order[1]
SetOrderOn(cur, order) ==
    IF Truthy(order)
      THEN LET d == GetOrderItem(order, 0)
               f == GetOrderItem(order, 1)
           IN  IF d.raised.error = "IndexError"
                 THEN [raised |-> Error("ValueError", ""), order |-> cur]
               ELSE IF IsRaised(d) THEN [raised |-> d.raised, order |-> cur]
               ELSE IF d.item \notin PossibleRowOrder
                 THEN [raised |-> Error("AttributeError", d.item),
                       order |-> cur]
               ELSE IF f.raised.error = "IndexError"
                 THEN [raised |-> Error("ValueError", ""),
                       order |-> << d.item, cur[2] >>]
               ELSE IF IsRaised(f)
                 THEN [raised |-> f.raised, order |-> << d.item, cur[2] >>]
               ELSE [raised |-> NoError, order |-> << d.item, f.item >>]
      ELSE [raised |-> NoError, order |-> << "DESCENDING", "LastTime" >>]

\* the values assigned to order
OrderArgs ==
    << PyNone, PyTuple(<< >>), PyList(<< >>), StrObj(""), IntObj("0"),
       PyTuple(<< "ASCENDING", "SrcIP" >>),
       PyTuple(<< "DESCENDING", "DstIP" >>),
       PyList(<< "ASCENDING", "LastTime" >>),
       PyTuple(<< "ASCENDING", "DstIP", "SrcIP" >>),
       PyTuple(<< "ASCENDING" >>), PyTuple(<< "DESCENDING" >>),
       PyTuple(<< "descending", "SrcIP" >>), PyTuple(<< "SrcIP" >>),
       PyTuple(<< "SrcIP", "ASCENDING" >>),
       StrObj("ASCENDING"), StrObj("A"), IntObj("5") >>

\* query.order = order
AssignOrder(n) ==
    /\ entry = "order"
    /\ \E o \in 1..Len(OrderArgs) :
          LET r == SetOrderOn(q[n].order, OrderArgs[o])
          IN  q' = [q EXCEPT ![n] = [@ EXCEPT
                        !.order = r.order,
                        !.called = Called("order",
                                          [before |-> q[n].order,
                                           order |-> OrderArgs[o]],
                                          r.raised)]]
    /\ UNCHANGED <<entry, unclosed, warnings, faults, truncs>>

\* a query built with arguments, before any assignment
InitOrder ==
    /\ \E i \in 1..Len(CtorArgs) :
          /\ entry = "order"
          /\ q = (Root :> Constructed(CtorArgs[i]))
    /\ InitRemote

NextOrder == \E n \in Queries : AssignOrder(n)

SpecOrder == InitOrder /\ [][NextOrder]_vars

(* ------------------------------- claims -------------------------------- *)
\* the query attempts in flight: submitted, and not yet fetched, failed or
\* timed out
InFlight == {n \in Queries : q[n].pc \in {"wait", "fetch"}}

\* the rows n's own (last) attempt fetched are exactly limit / fewer
Truncated(n) == Len(q[n].events_raw) = q[n].limit
Fewer(n) == Len(q[n].events_raw) < q[n].limit

\* C1: once the root's _qry_load_data has returned fewer than limit rows, the
\* only step load_data takes is to store exactly those rows and return, with
\* not_completed still false and no sub-query built; after the return nothing
\* happens any more (no split, no further request), whatever the arguments.
C1_CompleteRootLoadsItsRows ==
    [][ /\ (q[Root].pc = "returned" /\ Fewer(Root)) =>
            /\ q'[Root].pc = "done"
            /\ q'[Root].data = q[Root].events_raw
            /\ ~q'[Root].not_completed
            /\ DOMAIN q' = {Root}
            /\ unclosed' = unclosed
        /\ ~(q[Root].pc = "done" /\ Fewer(Root)) ]_vars

C1_Witness ==
    /\ q[Root].pc = "done"
    /\ Fewer(Root)
    /\ Len(q[Root].data) > 0
    /\ q[Root].max_query_depth > 0
    /\ q[Root].workers > 1
    /\ q[Root].delta # NoDelta

\* C2: a root with max_query_depth = 0 whose attempt returned exactly limit
\* rows returns normally with exactly those rows, with not_completed true,
\* the flag having been set exactly once, and without any sub-query.
C2_ExhaustedRootReturnsTruncated ==
    /\ (q[Root].max_query_depth = 0 /\ Truncated(Root)) =>
          q[Root].pc \in {"close", "returned", "warn", "done"}
    /\ (q[Root].pc = "done" /\ q[Root].max_query_depth = 0 /\ Truncated(Root)) =>
          /\ q[Root].data = q[Root].events_raw
          /\ q[Root].not_completed
          /\ warnings = 1
          /\ DOMAIN q = {Root}

C2_Witness ==
    /\ q[Root].pc = "done"
    /\ q[Root].max_query_depth = 0
    /\ Truncated(Root)
    /\ q[Root].not_completed

RECURSIVE SumLen(_)
SumLen(ss) == IF ss = << >> THEN 0 ELSE Len(Head(ss)) + SumLen(Tail(ss))

\* C3: a node that returned from load_data after an attempt of exactly limit
\* rows with max_query_depth >= 1 has sub-queries, all of them loaded, and
\* its rows are exactly theirs: as many as the sub-queries have together and
\* none of its own attempt; if no sub-query of the root was truncated the run
\* ends with not_completed false.
C3_SplitNodeHoldsChildrenRows ==
    \A n \in Queries :
        (q[n].pc = "done" /\ Truncated(n) /\ q[n].max_query_depth >= 1) =>
            /\ q[n].nkids >= 1
            /\ \A k \in KidSet(n) : k \in Queries /\ q[k].pc = "done"
            /\ Len(q[n].data) =
                  SumLen([i \in 1..q[n].nkids |-> q[Kids(n)[i]].data])
            /\ \A j \in 1..Len(q[n].data) : q[n].data[j][1] # n
            /\ (n = Root /\ \A k \in KidSet(n) : Fewer(k)) =>
                  ~q[Root].not_completed

C3_Witness ==
    /\ q[Root].pc = "done"
    /\ Truncated(Root)
    /\ q[Root].nkids = 2
    /\ \A k \in KidSet(Root) : Fewer(k)
    /\ Len(q[Root].data) = 2
    /\ \E k \in KidSet(Root) : Len(q[k].data) = 1

\* C4: whenever _qry_load_data has returned, it reported completed = true if
\* and only if it fetched strictly fewer than limit rows.
C4_CompletedIffFewerThanLimit ==
    \A n \in Queries :
        q[n].pc \in {"returned", "warn", "perform", "done"} =>
            (q[n].completed <=> Len(q[n].events_raw) < q[n].limit)

C4_Witness ==
    \E n \in Queries :
        /\ q[n].pc = "returned"
        /\ Len(q[n].events_raw) = q[n].limit
        /\ ~q[n].completed

\* the window of a query, as instants
Instants(n) == << ParseTime(Window(n)[1]), ParseTime(Window(n)[2]) >>

\* C5: a node that was split has exactly one sub-query per sub-interval of
\* the divider, in the divider's order and with its bounds; the sub-queries'
\* windows are ordered, start where the node's window starts, each begins
\* where the one before ends, and end where the node's window ends; when the
\* root is divided by delta every window but the last has length delta.
C5_ChildrenPartitionTheWindow ==
    \A n \in Queries :
        q[n].nkids > 0 =>
            /\ q[n].nkids = Len(Times(n))
            /\ {k \in Queries : q[k].parent = n} = KidSet(n)
            /\ \A i \in 1..q[n].nkids :
                  /\ Instants(Kids(n)[i]) = Times(n)[i]
                  /\ q[Kids(n)[i]].time_range = "CUSTOM"
                  /\ Instants(Kids(n)[i])[1] <= Instants(Kids(n)[i])[2]
            /\ Instants(Kids(n)[1])[1] = Instants(n)[1]
            /\ Instants(Kids(n)[q[n].nkids])[2] = Instants(n)[2]
            /\ \A i \in 1..(q[n].nkids - 1) :
                  Instants(Kids(n)[i])[2] = Instants(Kids(n)[i + 1])[1]
            /\ (n = Root /\ q[n].delta.kind = "str") =>
                  \A i \in 1..(q[n].nkids - 1) :
                      Instants(Kids(n)[i])[2] - Instants(Kids(n)[i])[1]
                          = ParseTimedelta(q[n].delta.val)

C5_Witness ==
    /\ q[Root].nkids = 2
    /\ q[Root].delta.kind = "str"
    /\ Instants(<<0, 1>>) = <<0, 6>>
    /\ Instants(<<0, 2>>) = <<6, RootEnd>>
    /\ q[<<0, 1>>].nkids = 2
    /\ Instants(<<0, 1, 2>>) = <<3, 6>>

\* C6: at any time at most `workers` (the argument of the root's load_data)
\* query attempts are in flight.
C6_InFlightAtMostWorkers == Cardinality(InFlight) <= q[Root].workers

C6_Witness ==
    /\ q[Root].workers = 2
    /\ Cardinality(InFlight) = 2
    /\ \E n \in InFlight : Len(n) = 3

\* C7: _qry_load_data(retry = N) raises only after N + 1 failed attempts
\* (N re-attempts), with the NitroError or TimeoutError of an attempt; every
\* failed attempt is followed by one re-attempt and takes one from the budget,
\* and a return follows the first attempt that did not fail, with its rows.
C7_RetryBudget ==
    /\ q[Root].pc = "raised" =>
          /\ q[Root].att = q[Root].retry0 + 1
          /\ q[Root].retry = 0
          /\ q[Root].err \in {"NitroError", "TimeoutError"}
    /\ q[Root].pc = "submit" => q[Root].att + q[Root].retry = q[Root].retry0
    /\ q[Root].pc \in {"wait", "fetch", "close", "returned"} =>
          q[Root].att + q[Root].retry = q[Root].retry0 + 1
    /\ q[Root].pc = "returned" => q[Root].items = q[Root].events_raw
    /\ q[Root].retry >= 0

C7_Witness ==
    /\ q[Root].pc = "raised"
    /\ q[Root].retry0 = 2
    /\ q[Root].att = 3

\* C8: a query that is not in an attempt (not waiting, fetching or closing)
\* has left no result identifier unclosed.
C8_EveryResultIdClosed ==
    \A n \in Queries :
        q[n].pc \notin {"wait", "fetch", "close"} =>
            \A r \in unclosed : r[1] # n

\* C9: the step that follows a successful fetch (the close request) ends the
\* call of _qry_load_data with the fetched rows, whether the close request
\* failed or not: no re-attempt, no exception.
C9_CloseFailureKeepsRows ==
    [][ \A n \in Queries :
          q[n].pc = "close" =>
              /\ q'[n].pc \in {"close", "returned"}
              /\ q'[n].pc = "returned" => q'[n].items = q[n].events_raw ]_vars

\* C10: _wait_for returns (the fetch follows) only after a status answer with
\* complete = true; once the wait budget has elapsed the only step is the
\* TimeoutError (which is what a call without retry left raises, not a
\* NitroError), and no status request; and a wait always ends.
C10_WaitFor ==
    /\ [](q[Root].pc \in {"fetch", "close", "returned"} =>
            q[Root].status = "complete")
    /\ [][ (q[Root].pc = "wait" /\ q[Root].elapsed >= q[Root].wait * TicksPerSec) =>
              /\ q'[Root].pc \in {"submit", "raised"}
              /\ q'[Root].pc = "raised" => q'[Root].err = "TimeoutError" ]_vars
    /\ (q[Root].pc = "wait") ~> (q[Root].pc # "wait")

C10_Witness ==
    /\ q[Root].pc = "wait"
    /\ q[Root].status = "pending"
    /\ q[Root].wait > 0
    /\ q[Root].elapsed >= q[Root].wait * TicksPerSec

\* the sub-queries of n whose load_data raised
RaisedKids(n) == {k \in KidSet(n) : q[k].pc = "raised"}

\* C11: a sub-query raises only after its two attempts (retry = 1) failed; a
\* node returns from load_data only if every one of its sub-queries returned,
\* so the root never returns while a query of the tree has raised; the only
\* way a node leaves perform once a sub-query has raised is to raise that
\* sub-query's error; and a query that raised is never touched again (no
\* re-run by load_data).
C11_ChildFailurePropagates ==
    /\ [](\A n \in Queries :
            /\ (q[n].pc = "raised" /\ n # Root /\ q[n].nkids = 0) =>
                  /\ q[n].att = DefaultRetry + 1
                  /\ q[n].err \in {"NitroError", "TimeoutError"}
            /\ (q[n].pc = "done" /\ q[n].nkids > 0) =>
                  \A k \in KidSet(n) : q[k].pc = "done"
            /\ (q[n].pc = "raised" /\ n # Root) => q[Root].pc # "done")
    /\ [][\A n \in Queries :
            /\ q[n].pc = "raised" => q'[n] = q[n]
            /\ (q[n].pc = "perform" /\ RaisedKids(n) # {}) =>
                  /\ q'[n].pc \in {"perform", "raised"}
                  /\ q'[n].pc = "raised" =>
                        q'[n].err \in {q[k].err : k \in RaisedKids(n)}]_vars

C11_Witness ==
    /\ q[Root].pc = "raised"
    /\ \E k \in KidSet(Root) :
          /\ q[k].pc = "raised"
          /\ q[k].att = DefaultRetry + 1
          /\ q[Root].err = q[k].err
    /\ \E k \in KidSet(Root) : q[k].pc = "done" /\ Len(q[k].data) > 0

\* the queries of the tree below n, n included
Subtree(n) == {m \in Queries : Len(m) >= Len(n) /\ SubSeq(m, 1, Len(n)) = n}

\* C12: perform is asked for a pool by the root and by no other node; under
\* a node that has a parent at most one sub-query is running at a time; and
\* in the part of the tree run by one worker of the root's pool (one
\* sub-query of the root and everything below it) at most one query attempt
\* is in flight, whatever the depth.
C12_OnlyRootUsesThePool ==
    /\ \A n \in Queries :
          /\ q[n].asynch => n = Root
          /\ (n = Root /\ q[n].pc = "perform") => q[n].asynch
          /\ n # Root => Cardinality({k \in KidSet(n) : Running(k)}) <= 1
    /\ \A w \in KidSet(Root) : Cardinality(InFlight \cap Subtree(w)) <= 1

C12_Witness ==
    /\ q[Root].workers = 2
    /\ {<<0, 1>>, <<0, 2>>} \subseteq Queries
    /\ q[<<0, 1>>].pc = "perform"
    /\ q[<<0, 2>>].pc = "perform"
    /\ \E a \in KidSet(<<0, 1>>), b \in KidSet(<<0, 2>>) : {a, b} \subseteq InFlight

\* the order of the time slots: a is in a slot before b's
RECURSIVE PathLess(_, _)
PathLess(a, b) ==
    IF a = << >> \/ b = << >> THEN FALSE
    ELSE IF Head(a) # Head(b) THEN Head(a) < Head(b)
    ELSE PathLess(Tail(a), Tail(b))

\* row r comes before row s in the order of the time slots, and in the order
\* of the answer inside one slot
RowBefore(r, s) == PathLess(r[1], s[1]) \/ (r[1] = s[1] /\ r[2] < s[2])

\* C13: the rows of a node that returned after a split are its sub-queries'
\* rows, sub-query after sub-query in the order of the time slots, also when
\* a later sub-query returned before an earlier one: every row was fetched
\* below the node, and a row fetched in an earlier slot stands before every
\* row of a later slot (so the rows of two sub-queries are never interleaved).
C13_MergedInWindowOrder ==
    \A n \in Queries :
        (q[n].pc = "done" /\ q[n].nkids > 0) =>
            /\ q[n].data = Flatten([i \in 1..q[n].nkids |-> q[Kids(n)[i]].data])
            /\ \A i \in 1..Len(q[n].data) :
                  /\ q[n].data[i][1] \in Subtree(n) \ {n}
                  /\ \A j \in (i + 1)..Len(q[n].data) :
                        RowBefore(q[n].data[i], q[n].data[j])

C13_Witness ==
    /\ q[Root].pc = "done"
    /\ q[Root].nkids = 2
    /\ q[<<0, 1>>].overtaken
    /\ Len(q[<<0, 1>>].data) > 0
    /\ Len(q[<<0, 2>>].data) > 1

\* the queries that returned from load_data with exactly limit rows and no
\* depth left to split
ExhaustedNodes ==
    {n \in Queries : q[n].pc = "done" /\ Truncated(n) /\ ~DepthLeft(n)}

\* C14: the "query is not complete" warning has been logged once if a query
\* of the tree returned truncated with no depth left, and not at all
\* otherwise, also when sub-queries run by different workers get there
\* together.
C14_WarnedExactlyOnce ==
    warnings = (IF ExhaustedNodes # {} THEN 1 ELSE 0)

\* C15: the root's not_completed is true exactly when a query of the tree
\* returned truncated with no depth left, during the run and when the root's
\* load_data has returned; no sub-query's own flag is ever set; and the
\* root's flag, once true, stays true.
C15_NotCompletedFlag ==
    /\ [](/\ q[Root].not_completed <=> ExhaustedNodes # {}
          /\ \A n \in Queries \ {Root} : ~q[n].not_completed)
    /\ [][q[Root].not_completed => q'[Root].not_completed]_vars

C15_Witness ==
    /\ q[Root].pc = "done"
    /\ q[Root].not_completed
    /\ \E n \in ExhaustedNodes : Len(n) = 3
    /\ \E n \in Queries : Len(n) = 2 /\ Fewer(n) /\ q[n].pc = "done"

\* number of levels between the root and n
Level(n) == Len(n) - 1

\* C16: a sub-query's load_data is called with its parent's max_query_depth
\* less one, so a query Level(n) levels below the root has the root's
\* max_query_depth less Level(n); a query that was split had depth left, so
\* no query exists more than max_query_depth levels below the root; and the
\* root's load_data comes to an end (a return or an exception), also when
\* every answer holds exactly limit rows.
C16_DepthBoundsRecursion ==
    /\ [](\A n \in Queries :
            /\ q[n].max_query_depth = q[Root].max_query_depth - Level(n)
            /\ q[n].nkids > 0 => q[n].max_query_depth > 0
            /\ Level(n) <= q[Root].max_query_depth
            /\ \A k \in KidSet(n) :
                  q[k].max_query_depth = q[n].max_query_depth - 1)
    /\ <>(q[Root].pc \in {"done", "raised"})

C16_Witness ==
    /\ q[Root].pc = "done"
    /\ q[Root].max_query_depth = 1
    /\ q[Root].nkids = 2
    /\ \A n \in Queries : Truncated(n)

\* C17: when load_data was given retry = N and raises the remote-service
\* error of the root's own query, that query has been attempted N + 1 times
\* (N re-attempts).
C17_RetryArgumentIsTheBudget ==
    \A r \in 0..MaxRetry :
        (/\ <<"retry", r>> \in q[Root].kwargs
         /\ q[Root].pc = "raised"
         /\ q[Root].nkids = 0
         /\ q[Root].err = "NitroError") => q[Root].att = r + 1

\* the wire form of a filter tree: a leaf is an EsmFieldFilter on its field
\* with operator IN and one EsmBasicValue per literal, the literal as a
\* string; a group is an EsmFilterGroup of its children's wire forms, in order
RECURSIVE Wire(_)
Wire(t) ==
    IF t.kind = "leaf"
      THEN [type |-> "EsmFieldFilter", field |-> [name |-> t.field],
            operator |-> "IN",
            values |-> [i \in 1..Len(t.literals) |->
                          [type |-> "EsmBasicValue",
                           value |-> [class |-> "str",
                                      v |-> t.literals[i].v]]]]
      ELSE [type |-> "EsmFilterGroup",
            filters |-> [i \in 1..Len(t.children) |-> Wire(t.children[i])],
            logic |-> t.logic]

\* the last call made on the root query was op
LastCallIs(op) == q[Root].called # << >> /\ q[Root].called[1].op = op
LastCall == q[Root].called[1]
LastFilter == q[Root].filters[Len(q[Root].filters)]

\* C18: after add_filter was given the pair of a leaf, or the GroupFilter
\* built for a group (of leaves, or of groups and leaves), the last filter
\* _get_filters serializes is the wire form of the tree; for the pair
\* ("SrcIP", ["10.0.0.0/8"]) that is one leaf on SrcIP with operator IN and
\* the one literal.
C18_FilterSerialization ==
    LastCallIs("add_filter") =>
        /\ \A i \in 1..Len(Trees) :
              LastCall.arg = Argument(Trees[i]) =>
                  /\ ~IsRaised(LastCall)
                  /\ GetFilters(Root)[Len(q[Root].filters)] = Wire(Trees[i])
        /\ LastCall.arg = PyTuple(<< "SrcIP", PyList(<< StrObj("10.0.0.0/8") >>) >>) =>
              GetFilters(Root)[Len(q[Root].filters)] =
                  [type |-> "EsmFieldFilter", field |-> [name |-> "SrcIP"],
                   operator |-> "IN",
                   values |-> << [type |-> "EsmBasicValue",
                                  value |-> StrObj("10.0.0.0/8")] >>]

C18_Witness ==
    /\ LastCallIs("add_filter")
    /\ LastCall.arg = Argument(Trees[Len(Trees)])
    /\ Len(q[Root].filters) = 2
    /\ GetFilters(Root)[1] = Wire(SrcIPLeaf)
    /\ GetFilters(Root)[2].filters[2].filters[1] = Wire(OrGroup)

\* a step that is a call of add_filter, and its argument
AddFilterCalled ==
    /\ q'[Root].called # << >>
    /\ q'[Root].called[1].op = "add_filter"
    /\ q' # q
AddFilterArg == q'[Root].called[1].arg
AddFilterRaised == q'[Root].called[1].raised

\* a tuple of a field and a value or values
IsPair(a) == a.class = "tuple" /\ Len(a.items) >= 2

\* what add_filter does with a pair and with a FieldFilter or GroupFilter:
\* the leaf of a pair that was accepted is appended, on the pair's field and
\* with operator IN; a FieldFilter or GroupFilter is appended as is
PairOrNodeAdded ==
    /\ (IsPair(AddFilterArg) /\ AddFilterRaised = NoError) =>
          /\ Len(q'[Root].filters) = Len(q[Root].filters) + 1
          /\ SubSeq(q'[Root].filters, 1, Len(q[Root].filters)) = q[Root].filters
          /\ q'[Root].filters[Len(q'[Root].filters)].class = "FieldFilter"
          /\ q'[Root].filters[Len(q'[Root].filters)].data.operator = "IN"
          /\ q'[Root].filters[Len(q'[Root].filters)].data.field.name
                = AddFilterArg.items[1]
    /\ AddFilterArg.class \in {"FieldFilter", "GroupFilter"} =>
          /\ AddFilterRaised = NoError
          /\ q'[Root].filters = Append(q[Root].filters, AddFilterArg)

\* C19 as stated: a pair becomes an IN leaf, a FieldFilter or GroupFilter is
\* appended as is, and any other argument is rejected with a TypeError and
\* leaves the filter list unchanged.
C19_OtherShapesRejected ==
    [][AddFilterCalled =>
          /\ PairOrNodeAdded
          /\ (~IsPair(AddFilterArg)
                /\ AddFilterArg.class \notin {"FieldFilter", "GroupFilter"}) =>
                /\ AddFilterRaised.error = "TypeError"
                /\ q'[Root].filters = q[Root].filters]_vars

\* C19 amended: a pair becomes an IN leaf, a FieldFilter, a GroupFilter or a
\* dict is appended as is; an argument that is neither a tuple nor one of
\* these is rejected with a TypeError; and whenever add_filter raises (also
\* for a tuple that gives no leaf) the filter list is unchanged.
C19_DictAccepted ==
    [][AddFilterCalled =>
          /\ PairOrNodeAdded
          /\ AddFilterArg.class = "dict" =>
                /\ AddFilterRaised = NoError
                /\ q'[Root].filters = Append(q[Root].filters, AddFilterArg)
          /\ AddFilterArg.class \notin
                    {"tuple", "FieldFilter", "GroupFilter", "dict"} =>
                AddFilterRaised.error = "TypeError"
          /\ AddFilterRaised # NoError =>
                q'[Root].filters = q[Root].filters]_vars

C19_Witness ==
    /\ LastCallIs("add_filter")
    /\ LastCall.arg.class = "dict"
    /\ ~IsRaised(LastCall)
    /\ Len(q[Root].filters) = 2
    /\ q[Root].filters[1].class = "FieldFilter"
    /\ LastFilter = LastCall.arg

\* the key add_value stores the payload of a kind under
KeyOf(type) ==
    CASE type = "EsmBasicValue" -> "value"
      [] type = "EsmCompoundValue" -> "values"
      [] type = "EsmWatchlistValue" -> "watchlist"
      [] type = "EsmVariableValue" -> "variable"
      [] OTHER -> ""

\* C20: after add_value(type, **kwargs) on a field filter: if the kind is one
\* of the four and its key is among the arguments, exactly one entry was
\* appended, holding the kind and the payload under the kind's key and
\* nothing else, the payload as a string if the kind is EsmBasicValue and as
\* given otherwise; if not, an error naming the kind was raised and the values
\* are what they were. And a literal given to add_filter in a pair is stored
\* as an EsmBasicValue with the literal as a string.
C20_AddValue ==
    /\ LastCallIs("add_value") =>
          LET type == LastCall.arg.type
              kwargs == LastCall.arg.kwargs
              before == LastCall.arg.before
              values == q[Root].filters[LastCall.arg.filter].values
              key == KeyOf(type)
          IN  IF key # "" /\ key \in DOMAIN kwargs
                THEN /\ ~IsRaised(LastCall)
                     /\ Len(values) = Len(before) + 1
                     /\ SubSeq(values, 1, Len(before)) = before
                     /\ DOMAIN values[Len(values)] = {"type", key}
                     /\ values[Len(values)]["type"] = type
                     /\ values[Len(values)][key] =
                           IF type = "EsmBasicValue"
                             THEN [class |-> "str", v |-> kwargs[key].v]
                             ELSE kwargs[key]
                     /\ q[Root].filters[LastCall.arg.filter].data.values = values
                ELSE /\ LastCall.raised.error = "AttributeError"
                     /\ LastCall.raised.naming = type
                     /\ values = before
    /\ (/\ LastCallIs("add_filter")
        /\ IsPair(LastCall.arg)
        /\ LastCall.arg.items[2].class \in {"int", "str"}) =>
          /\ ~IsRaised(LastCall)
          /\ LastFilter.values =
                << [type |-> "EsmBasicValue",
                    value |-> [class |-> "str", v |-> LastCall.arg.items[2].v]] >>

C20_Witness ==
    /\ LastCallIs("add_value")
    /\ LastCall.arg.type = "EsmBasicValue"
    /\ LastCall.arg.kwargs = [value |-> IntObj("42")]
    /\ ~IsRaised(LastCall)
    /\ Len(LastCall.arg.before) = 1
    /\ q[Root].filters[LastCall.arg.filter].values[2] =
          [type |-> "EsmBasicValue", value |-> StrObj("42")]

\* the nickname and the wire name of the fields of the model
FieldNames ==
    {<<k, NicknameToInternalName[k]>> : k \in DOMAIN NicknameToInternalName}

\* C21: for an event that holds a field under its wire name, reading by the
\* nickname and by the wire name gives the same value and `in` the same
\* answer; `in` is true exactly when reading the key succeeds; a key found in
\* none of the three ways raises KeyError.
C21_NicknameAndWireNameAgree ==
    entry = "event" =>
        /\ \A f \in FieldNames :
              UserDictContains(TheEvent, f[2]) =>
                  /\ GetItem(TheEvent, f[1]) = GetItem(TheEvent, f[2])
                  /\ Contains(TheEvent, f[1]) = Contains(TheEvent, f[2])
        /\ \A key \in EventKeys :
              /\ Contains(TheEvent, key) <=> ~IsRaised(GetItem(TheEvent, key))
              /\ ( /\ ~UserDictContains(TheEvent, key)
                   /\ key \in DOMAIN NicknameToInternalName =>
                         ~UserDictContains(TheEvent,
                                           NicknameToInternalName[key])
                   /\ Prefixed(TheEvent, key) = {} )
                     => GetItem(TheEvent, key).raised.error = "KeyError"

\* the items of a list
Range(s) == {s[i] : i \in 1..Len(s)}

\* the wire name of a field given by its nickname or by its wire name
InternalName(field) ==
    IF field \in DOMAIN NicknameToInternalName
      THEN NicknameToInternalName[field]
      ELSE field

\* C22: the field list of every query, the root built with any list of
\* fields and every sub-query of a split, names no field twice (be it by its
\* nickname and by its internal name) and holds Rule.msg, LastTime and
\* IPSIDAlertID; a sub-query has the same set of fields as its parent.
C22_FieldsUniqueWithDefaults ==
    \A n \in Queries :
        /\ \A i, j \in 1..Len(q[n].fields) :
              i # j => InternalName(q[n].fields[i])
                          # InternalName(q[n].fields[j])
        /\ {"Rule.msg", "LastTime", "IPSIDAlertID"} \subseteq Range(q[n].fields)
        /\ q[n].parent # None =>
              Range(q[n].fields) = Range(q[q[n].parent].fields)

\* a sub-query of a root built with fields=["Alert.SrcIP", "SrcIP"]
C22_Witness ==
    /\ Range(q[Root].fields) = {"Rule.msg", "LastTime", "IPSIDAlertID", "SrcIP"}
    /\ Len(q[Root].fields) = 4
    /\ q[Root].order = << "ASCENDING", "SrcIP" >>
    /\ <<0, 1>> \in Queries
    /\ Len(q[<<0, 1>>].fields) = 4

\* the filter list of n holds an IPSID field filter
HasIPSIDFilter(n) ==
    \E i \in 1..Len(q[n].filters) :
        /\ q[n].filters[i].class = "FieldFilter"
        /\ q[n].filters[i].name = "IPSID"

\* C23: once GroupedEventManager._qry_load_data has made its test, a query
\* without IPSID field filter, whatever field filters and group filters it
\* holds, has raised ValueError and no request was sent; a query with an
\* IPSID field filter has not raised ValueError.
C23_ValueErrorWithoutIPSID ==
    (entry = "grouped_load_data" /\ q[Root].pc # "check") =>
        /\ ~HasIPSIDFilter(Root) =>
              /\ q[Root].pc = "raised"
              /\ q[Root].err = "ValueError"
              /\ q[Root].att = 0
              /\ unclosed = {}
        /\ HasIPSIDFilter(Root) => q[Root].err # "ValueError"

\* C24: in an attempt the requests come in the order submit, status polls,
\* fetch, close: a poll, a fetch and a close use the identifier the attempt's
\* submit returned; the fetch comes only after a status answer with
\* complete = true, asks for the rows from position 0 and for at most limit
\* of them; an attempt that returns made one submit, one fetch and one close,
\* the close after the fetch.
C24_RequestOrder ==
    /\ [](\A n \in Queries :
            /\ q[n].pc \in {"wait", "fetch", "close"} =>
                  /\ q[n].rid = <<n, q[n].att>>
                  /\ q[n].rid \in unclosed
            /\ q[n].pc \in {"fetch", "close", "returned"} =>
                  q[n].status = "complete")
    /\ [][\A n \in Queries :
            /\ (q'[n].pc = "wait" /\ q[n].pc # "wait") =>
                  /\ q[n].pc = "submit"
                  /\ q'[n].att = q[n].att + 1
                  /\ q'[n].rid \notin unclosed
            /\ (q'[n].pc = "fetch" /\ q[n].pc # "fetch") =>
                  /\ q[n].pc = "wait"
                  /\ q'[n].rid = q[n].rid
            /\ (q'[n].pc = "close" /\ q[n].pc # "close") =>
                  /\ q[n].pc = "fetch"
                  /\ q'[n].rid = q[n].rid
                  /\ \E k \in 0..q[n].limit :
                        q'[n].events_raw = [j \in 1..k |-> <<n, j>>]
            /\ (q'[n].pc = "returned" /\ q[n].pc # "returned") =>
                  /\ q[n].pc = "close"
                  /\ q'[n].att = q[n].att
                  /\ unclosed' = unclosed \ {q[n].rid} ]_vars

\* a second attempt has fetched limit rows and closed its query
C24_Witness ==
    /\ entry = "_qry_load_data"
    /\ q[Root].pc = "returned"
    /\ q[Root].att = 2
    /\ Len(q[Root].events_raw) = q[Root].limit
    /\ unclosed = {<<Root, 1>>}

\* the step of n is the except clause starting a re-attempt
ReAttempt(n) ==
    /\ q[n].pc \in {"submit", "wait", "fetch", "close"}
    /\ q'[n].pc = "submit"
    /\ q'[n].retry = q[n].retry - 1

\* C25: a re-attempt of _qry_load_data(retry = r, wait_timeout_sec = w) polls
\* with the wait budget w of the attempt that failed: the re-attempt changes
\* the retry budget and nothing else of the call's arguments.
C25_SameWaitBudget ==
    [][\A n \in Queries :
          (entry = "_qry_load_data" /\ ReAttempt(n)) =>
              /\ q'[n].wait = q[n].wait
              /\ q'[n].limit = q[n].limit ]_vars

\* the step of n is the failure of an attempt that is followed by another
Failed(n) ==
    \/ q[n].pc = "submit" /\ q'[n].pc = "submit" /\ q'[n].att = q[n].att + 1
    \/ q[n].pc \in {"wait", "fetch", "close"} /\ q'[n].pc \in {"submit", "wait"}
                                             /\ q'[n].retry # q[n].retry

\* C26: a re-attempt is a fresh attempt: it starts with a submit, without
\* result identifier and without rows of the failed attempt, and with one
\* less in the retry budget; the status, fetch and close requests of an
\* attempt use the identifier of its own submit, the latest of the call; the
\* rows returned are those the returning attempt fetched.
C26_FreshAttempt ==
    /\ [](\A n \in Queries :
            /\ q[n].pc \in {"wait", "fetch", "close"} =>
                  q[n].rid = <<n, q[n].att>>
            /\ q[n].pc = "submit" =>
                  /\ q[n].rid = None
                  /\ q[n].events_raw = << >>)
    /\ [][\A n \in Queries :
            /\ Failed(n) =>
                  /\ q'[n].pc = "submit"
                  /\ q'[n].retry = q[n].retry - 1
                  /\ q'[n].rid = None
                  /\ q'[n].events_raw = << >>
            /\ (q[n].pc = "close" /\ q'[n].pc = "returned") =>
                  /\ q'[n].items = q[n].events_raw
                  /\ q'[n].rid = <<n, q[n].att>> ]_vars

\* the second attempt waits on its own query, the first one's rows are gone
\* and its query is still open
C26_Witness ==
    /\ entry = "_qry_load_data"
    /\ q[Root].pc = "wait"
    /\ q[Root].rid = <<Root, 2>>
    /\ <<Root, 1>> \in unclosed
    /\ q[Root].retry = q[Root].retry0 - 1

\* C27: when load_data, run again on the same root, has returned and the
\* query of the new run was complete (fewer than limit rows, so that no
\* attempt of the run was truncated), not_completed is false, whatever the
\* earlier run has set.
C27_NotCompletedOfLastRun ==
    ( /\ q[Root].run > 1
      /\ q[Root].pc = "done"
      /\ q[Root].completed ) => ~q[Root].not_completed

\* the num_rows load_data was called with
GivenNumRows == (CHOOSE a \in q[Root].kwargs : a[1] = "num_rows")[2]

\* C28: in GroupedEventManager._qry_load_data(num_rows = n, retry = r) every
\* attempt, the re-attempts after an error or a timeout included, fetches at
\* most n rows, and the call reports completed = true exactly when the
\* attempt that returned fetched fewer than n rows.
C28_AtMostNumRows ==
    entry = "grouped_load_data" =>
        /\ q[Root].pc \in {"close", "returned", "done"} =>
              Len(q[Root].events_raw) <= GivenNumRows
        /\ q[Root].pc \in {"returned", "done"} =>
              (q[Root].completed <=> Len(q[Root].events_raw) < GivenNumRows)

\* the step of n ends an attempt and takes one from the retry budget
BudgetConsumed(n) ==
    /\ n \in DOMAIN q'
    /\ q[n].pc \in {"idle", "submit", "wait", "fetch", "close"}
    /\ q'[n].retry < q[n].retry

\* the step of n raises an exception that is neither NitroError nor
\* TimeoutError, of its own (not one of a sub-query)
RaisesOther(n) ==
    /\ n \in DOMAIN q'
    /\ q[n].pc \notin {"raised", "perform"}
    /\ q'[n].pc = "raised"
    /\ q'[n].err \notin {"NitroError", "TimeoutError"}

\* C29: a re-attempt follows only an error of the remote service or a poll
\* timeout; a failure of another kind in an attempt, and a failure of the
\* window resolution or division, is raised at once: the step that fails is
\* the step that raises, no re-attempt is made and the retry budget is as it
\* was.
C29_OnlyRemoteErrorsRetried ==
    [][\A n \in Queries :
          /\ BudgetConsumed(n) =>
                \/ faults' = faults - 1
                \/ q[n].pc = "wait" /\ ~InBudget(n)
          /\ RaisesOther(n) =>
                /\ q'[n].retry = q[n].retry
                /\ q'[n].att = q[n].att
          /\ (q[n].pc = "returned" /\ WindowError(n) # ""
                /\ ~q[n].completed /\ q[n].max_query_depth > 0) =>
                /\ n \in DOMAIN q'
                /\ q'[n].pc = "raised"
                /\ q'[n].err = WindowError(n)
                /\ q'[n].retry = q[n].retry
                /\ DOMAIN q' = DOMAIN q ]_vars

\* an attempt failed with a KeyError while the retry budget was not used up
C29_Witness ==
    /\ q[Root].pc = "raised"
    /\ q[Root].err = "KeyError"
    /\ q[Root].retry = DefaultRetry
    /\ q[Root].att = 1

\* the node whose split built n
Splitter(n) == SubSeq(n, 1, Len(n) - 1)

\* C30: a sub-query has the node that split as its parent, the fields, order,
\* limit and filters of that node, and the time range CUSTOM with a start and
\* an end of its own; so every query that has a parent has a concrete window
\* and is submitted with event_query_custom_time; a split adds sub-queries of
\* the splitting node only.
C30_ChildInheritsWithCustomWindow ==
    /\ [](\A n \in Queries :
            q[n].parent # None =>
                /\ q[n].parent = Splitter(n)
                /\ q[n].parent \in Queries
                /\ q[q[n].parent].pc \in {"perform", "done", "raised"}
                /\ Range(q[n].fields) = Range(q[q[n].parent].fields)
                /\ q[n].order = q[q[n].parent].order
                /\ q[n].limit = q[q[n].parent].limit
                /\ q[n].filters = q[q[n].parent].filters
                /\ q[n].time_range = "CUSTOM"
                /\ q[n].start_time # NoTime
                /\ q[n].end_time # NoTime
                /\ ParseTime(q[n].start_time) <= ParseTime(q[n].end_time)
                /\ RequestName(n) = "event_query_custom_time")
    /\ [][\A n \in DOMAIN q' \ Queries :
            /\ q'[n].parent \in Queries
            /\ q[q'[n].parent].pc = "returned"
            /\ q'[q'[n].parent].pc = "perform" ]_vars

\* the sub-query of a root with a relative time range, an order and a filter
\* has submitted its query
C30_Witness ==
    /\ q[Root].time_range = Last24Hours
    /\ RequestName(Root) = "event_query"
    /\ q[Root].filters # << >>
    /\ <<0, 1>> \in Queries
    /\ q[<<0, 1>>].pc = "wait"
    /\ q[<<0, 1>>].order = << "ASCENDING", "LastTime" >>

\* the sub-windows of a split node, in the order of its sub-queries
KidWindows(n) == [i \in 1..q[n].nkids |-> Instants(Kids(n)[i])]

\* C31: the sub-queries of a split node are the division of its window by
\* delta only when the node is the root and load_data was given a delta
\* string; the root without delta and every other node are divided into
\* `slots` sub-windows (ten when the caller gave none), and every sub-query
\* is loaded with the slots of its parent and without delta.
C31_DeltaOnlyAtTheRoot ==
    \A n \in Queries :
        q[n].nkids > 0 =>
            LET start == Instants(n)[1]
                end == Instants(n)[2]
            IN  /\ IF n = Root /\ q[n].delta.kind = "str"
                     THEN KidWindows(n) =
                            DivideByDelta(start, end,
                                          ParseTimedelta(q[n].delta.val))
                     ELSE /\ KidWindows(n) =
                               DivideBySlots(start, end, q[n].slots)
                          /\ q[n].nkids = q[n].slots
                /\ q[n].slots = q[Root].slots
                /\ \A k \in KidSet(n) :
                      /\ q[k].slots = q[n].slots
                      /\ q[k].delta = NoDelta

\* the root was divided by delta "6h" in two and its first sub-query, loaded
\* with the root's slots, was divided in two slots
C31_Witness ==
    /\ q[Root].delta = StrDelta("6h")
    /\ q[Root].nkids = 2
    /\ Instants(<<0, 1>>) = <<0, 6>>
    /\ q[<<0, 1>>].nkids = 2
    /\ Instants(<<0, 1, 1>>) = <<0, 3>>
    /\ q[<<0, 1, 1>>].pc = "done"
    /\ q[Root].pc = "done"

\* C32: timerange_gettimes is called only by a node whose range is not
\* CUSTOM, whose first attempt was truncated and which has depth left: never
\* when the attempt was complete or max_query_depth is 0, at most once in a
\* run, and never by a sub-query; NotImplementedError is raised only there
\* and ends the root's load_data.
C32_ResolverOnlyForTruncatedRoot ==
    /\ [](\A n \in Queries :
            /\ q[n].resolved <= 1
            /\ q[n].resolved > 0 =>
                  /\ n = Root
                  /\ q[n].time_range # "CUSTOM"
                  /\ ~q[n].completed
                  /\ q[n].max_query_depth > 0
            /\ q[n].err = "NotImplementedError" =>
                  /\ n = Root
                  /\ q[n].resolved = 1
                  /\ q[n].pc = "raised"
                  /\ q[n].nkids = 0)
    /\ [][\A n \in Queries :
            q'[n].resolved # q[n].resolved =>
                /\ q[n].pc = "returned"
                /\ NotCompleted(n)
                /\ DepthLeft(n)
                /\ q[n].time_range # "CUSTOM"]_vars

\* the root resolved its named range once and its first sub-query, truncated
\* with depth left, was divided without resolving anything
C32_Witness ==
    /\ q[Root].time_range = Last24Hours
    /\ q[Root].resolved = 1
    /\ q[Root].pc = "done"
    /\ q[<<0, 1>>].nkids > 0
    /\ q[<<0, 1>>].resolved = 0

\* the FieldFilter objects of the root query
FieldFilters ==
    {q[Root].filters[i] : i \in {j \in 1..Len(q[Root].filters) :
                                    q[Root].filters[j].class = "FieldFilter"}}

\* C35: after any assignments to operator and values and any add_value, the
\* dict of a FieldFilter, as dumped in the query's filters and as embedded in
\* a GroupFilter built from it, carries the filter's operator and values.
C35_DictCarriesOperatorAndValues ==
    \A f \in FieldFilters :
        /\ Dict(f).operator = f.operator
        /\ Dict(f).values = f.values
        /\ \A i \in 1..Len(q[Root].filters) :
              q[Root].filters[i] = f =>
                  /\ GetFilters(Root)[i].operator = f.operator
                  /\ GetFilters(Root)[i].values = f.values
        /\ GroupFilter(<< f >>, "AND").data.filters[1].operator = f.operator
        /\ GroupFilter(<< f >>, "AND").data.filters[1].values = f.values

\* the value records of an assigned value: a literal is a basic value holding
\* its string, a value record is itself (its payload a string if basic)
RECURSIVE Entries(_)
Entries(arg) ==
    CASE arg.class = "list" ->
           IF arg.items = << >> THEN << >>
           ELSE Entries(Head(arg.items)) \o Entries(PyList(Tail(arg.items)))
      [] arg.class = "dict" ->
           << IF arg.data.type = "EsmBasicValue"
                THEN [arg.data EXCEPT !.value = PyStr(@)]
                ELSE arg.data >>
      [] OTHER -> << [type |-> "EsmBasicValue", value |-> PyStr(arg)] >>

IsPrefix(s, t) == Len(s) <= Len(t) /\ SubSeq(t, 1, Len(s)) = s

\* C36: an assignment to FieldFilter.values keeps the values the filter had,
\* in place, and adds after them the assigned values in order, each literal
\* as a basic value; no assignment, add_value or operator change makes the
\* list shorter or replaces one of its values.
C36_ValuesOnlyGrow ==
    /\ [](LastCallIs("values") =>
            LET c == LastCall
                f == q[Root].filters[c.arg.filter]
            IN  /\ IsPrefix(c.arg.before, f.values)
                /\ ~IsRaised(c) =>
                      f.values = c.arg.before \o Entries(c.arg.values))
    /\ [][\A i \in 1..Len(q[Root].filters) :
            IsPrefix(q[Root].filters[i].values,
                     q'[Root].filters[i].values)]_vars

\* a filter that had a value was assigned a list of two literals
C36_Witness ==
    /\ LastCallIs("values")
    /\ ~IsRaised(LastCall)
    /\ LastCall.arg.before # << >>
    /\ LastCall.arg.values = PyList(<< StrObj("a"), IntObj("42") >>)
    /\ Len(q[Root].filters[LastCall.arg.filter].values)
          = Len(LastCall.arg.before) + 2

\* C37: an assignment to FieldFilter.values that raises (an element of an
\* unsupported type, a value record of an unknown kind) leaves the filter's
\* values as they were before the assignment.
C37_FailedAssignmentAddsNothing ==
    (LastCallIs("values") /\ IsRaised(LastCall)) =>
        /\ q[Root].filters[LastCall.arg.filter].values = LastCall.arg.before
        /\ Dict(q[Root].filters[LastCall.arg.filter]).values
              = LastCall.arg.before

\* C38: after any assignments to EventManager.order, refused or not, the
\* direction of the order is ASCENDING or DESCENDING; None or an empty order
\* gives (DESCENDING, LastTime); an order whose direction is neither is
\* refused with AttributeError and the order stays as it was.
C38_DirectionAlwaysValid ==
    /\ q[Root].order[1] \in {"ASCENDING", "DESCENDING"}
    /\ LastCallIs("order") =>
          LET c == LastCall
              o == c.arg.order
          IN  /\ (o.class = "NoneType"
                    \/ (o.class \in {"tuple", "list"} /\ o.items = << >>)) =>
                    /\ ~IsRaised(c)
                    /\ q[Root].order = << "DESCENDING", "LastTime" >>
              /\ (o.class \in {"tuple", "list"} /\ o.items # << >>
                    /\ o.items[1] \notin {"ASCENDING", "DESCENDING"}) =>
                    /\ c.raised.error = "AttributeError"
                    /\ q[Root].order = c.arg.before

\* an order of direction "descending" was refused on a query ordered
\* (ASCENDING, SrcIP)
C38_Witness ==
    /\ LastCallIs("order")
    /\ LastCall.arg.order = PyTuple(<< "descending", "SrcIP" >>)
    /\ LastCall.raised.error = "AttributeError"
    /\ LastCall.arg.before = << "ASCENDING", "SrcIP" >>

\* the step is the write event[key] = value
Written(key, value) ==
    /\ q'[Root].called[1].op = "setitem"
    /\ q'[Root].called[1].arg = [key |-> key, value |-> value]

\* C39: after event[k] = v, event[k] is v; when k is found in the event
\* (directly, by its nickname or by a table prefix) the write changes that
\* entry and adds none; no write makes the event hold a field under both its
\* nickname and its wire name.
C39_WriteThenRead ==
    [][\A k \in EventKeys, v \in EventValues :
          Written(k, v) =>
              LET e == q[Root].data[1]
                  after == q'[Root].data[1]
                  found == FindKey(e, k)
              IN  /\ GetItem(after, k) = [raised |-> NoError, value |-> v]
                  /\ ~IsRaised(found) =>
                        /\ DOMAIN after = DOMAIN e
                        /\ after[found.key] = v
                  /\ \A f \in FieldNames :
                        (f[1] # f[2] /\ {f[1], f[2]} \subseteq DOMAIN after)
                            => {f[1], f[2]} \subseteq DOMAIN e]_vars

\* the parameters of the query of n
Parameters(r) ==
    << r.fields, r.order, r.limit, r.filters, r.time_range, r.start_time,
       r.end_time >>

\* C33: no step of load_data changes the fields, order, limit, filters or
\* time window of a query, the root's included, from the call to its return;
\* a step is the step of one query and leaves every other query as it is, but
\* for the not_completed flag it may set on the root.
C33_ParametersUnchanged ==
    /\ [][\A n \in Queries :
            /\ n \in DOMAIN q'
            /\ Parameters(q'[n]) = Parameters(q[n])]_vars
    /\ [][\E n \in DOMAIN q' :
            \A m \in Queries \ {n} :
                \/ q'[m] = q[m]
                \/ /\ m = Root
                   /\ q'[m] = [q[m] EXCEPT !.not_completed = TRUE]]_vars

\* the load_data of a root with a relative time range, an order and a
\* filter has returned the rows of its two sub-queries
C33_Witness ==
    /\ q[Root].pc = "done"
    /\ q[Root].nkids = 2
    /\ q[Root].time_range = Last24Hours
    /\ q[Root].start_time = NoTime
    /\ q[Root].filters # << >>
    /\ q[Root].order = << "ASCENDING", "LastTime" >>
    /\ q[Root].data # << >>
    /\ \A k \in KidSet(Root) : q[k].pc = "done"

\* C34: when load_data, called again on the same root, has returned, the
\* root holds the rows of the new run only, in the order of the run: as many
\* as the run loaded, and, when the service answered the new run as it
\* answered the run before, the very rows the root held before the call.
C34_RowsReplaced ==
    ( /\ LastCallIs("load_data")
      /\ q[Root].run > 1
      /\ q[Root].pc = "done" ) =>
        /\ q[Root].data = Events(q[Root].items)
        /\ Len(q[Root].data) = Len(q[Root].items)
        /\ Events(q[Root].items) = LastCall.arg.data
              => q[Root].data = LastCall.arg.data

\* the second run has returned the two rows the first run had returned
C34_Witness ==
    /\ LastCallIs("load_data")
    /\ q[Root].run = 2
    /\ q[Root].pc = "done"
    /\ Len(LastCall.arg.data) = 2
    /\ q[Root].data = LastCall.arg.data

=============================================================================
